---- MODULE Spec2Model ----
(***************************************************************************)
(* State-machine model of the ilm-atlas front end: the SSE reader          *)
(* streamChatMessage and the useChat hook that renders a streamed answer,  *)
(* the token-refreshing authFetch helper, the citation renderer and the    *)
(* auth pages.  The answer pipeline behind the HTTP surface is not part of *)
(* the front-end sources; where its behaviour is needed it is modelled     *)
(* from the written specification (the Server* actions).                   *)
(***************************************************************************)
EXTENDS Integers, Sequences, FiniteSets, TLC

(***************************************************************************)
(* Bounds of the model.                                                    *)
(***************************************************************************)
\* content_delta events the server emits in one stream
MaxTokens == 2
\* sendMessage calls in one behaviour
MaxSends == 1
\* symbols the server may have in flight before it emits the next event
MaxWire == 1

VARIABLES
    \* ---- useChat (hooks/use-chat.ts) ----
    session,          \* useState<ChatSessionDetail | null>
    sending,          \* useState(sending)
    error,            \* useState<string | null>
    tokenBufferRef,   \* useRef("")  : tokens not yet painted
    rafRef,           \* useRef<number | null> : "null" or "scheduled"
    pendingStreams,   \* module-level Map, as the set of its keys
    tempUserMsgId,    \* id of the optimistic message of the current send
    loadPc,           \* position of loadSession
    sendCount,        \* number of sendMessage calls made so far
    \* ---- streamChatMessage (lib/api-client.ts) ----
    streamPc,         \* "idle" | "fetching" | "reading" | "resolved" | "rejected"
    buffer,           \* let buffer = ""
    resStatus,        \* status of the response to the streaming POST (0: none)
    callbackLog,      \* callbacks invoked for the current stream, in order
    tokensAtSend,     \* tokenBufferRef as the current send found it
    messagesAtSend,   \* session.messages as the current send found them
    orphaned,         \* the instance that started the stream has unmounted
    renderedSending,  \* `sending` as the sendMessage closure of the last render holds it
    streamCalls,      \* position of the stream each sendMessage call started
    \* ---- transport and server ----
    wire,             \* response body bytes the reader has not consumed yet
    wireClosed,       \* the body has ended (reader.read() will report done)
    serverPhase,      \* position of the server-side generator
    produced,         \* events the server wrote to the current stream, in order
    resBody,          \* every byte written to the current response body
    dbMessages,       \* messages the conversation store holds for the session
    \* ---- access token and refresh (lib/api-client.ts) ----
    refreshRequests,  \* POST /auth/refresh requests issued so far
    accessToken,      \* let accessToken: string | null; 0 stands for null
    isRefreshing,     \* let isRefreshing = false
    refreshPromise,   \* let refreshPromise: "null" or "pending"
    calls,            \* the API calls in progress, one record per caller
    tokensIssued,     \* access tokens the server has issued so far
    logins,           \* login() calls made so far
    \* ---- AuthProvider, routes and pages ----
    user,             \* useState<UserProfile | null>: "null" or the role
    isLoading,        \* useState(true)
    authPc,           \* position of the provider's init / login / logout
    route,            \* the path the router shows
    forgot,           \* the state of ForgotPasswordPage, one record per visit
    \* ---- the answer pipeline of one run ----
    pState,           \* IDLE .. DONE, or FAILED
    intent,           \* the intent label, "none" before classification
    phrases,          \* the expansion phrases, in order
    searches,         \* status of each per-phrase, per-mode retrieval call
    retained,         \* the candidates handed to the Result Fuser
    fused,            \* the context blocks, in citation order
    pEvents,          \* the StreamEvents emitted so far
    modelDone,        \* the model has signalled the end of its text
    failCause,        \* why the run is FAILED, "none" otherwise
    fallbacks,        \* the components whose failure was recovered locally
    \* ---- CitationMarkdown (components/chat/citation-markdown.tsx) ----
    content,          \* the text handed to renderTextWithCitations
    citations,        \* the citation list of the message
    nodes,            \* the ReactNode[] renderTextWithCitations returned
    lightboxIndex,    \* useState<number | null>; 0 stands for null
    citePc            \* "input" | "rendered"

hookVars   == <<session, sending, error, tokenBufferRef, rafRef, pendingStreams,
                tempUserMsgId, loadPc, sendCount>>
streamVars == <<streamPc, buffer, resStatus, callbackLog>>
serverVars == <<wire, wireClosed, serverPhase, produced, resBody, dbMessages>>
overlapVars == <<renderedSending, streamCalls>>
chatVars   == <<hookVars, streamVars, serverVars, tokensAtSend,
                 messagesAtSend, orphaned, overlapVars>>
tokenVars  == <<refreshRequests, accessToken, tokensIssued, logins>>
authVars   == <<tokenVars, isRefreshing, refreshPromise, calls>>
citeVars   == <<content, citations, nodes, lightboxIndex, citePc>>
pageVars   == <<user, isLoading, authPc, route, forgot>>
pipeVars   == <<pState, intent, phrases, searches, retained, fused, pEvents,
                modelDone, failCause, fallbacks>>
\* what the actions of one part of the model leave alone
nonChatVars == <<authVars, citeVars, pageVars, pipeVars>>
nonCiteVars == <<chatVars, authVars, pageVars, pipeVars>>
nonAuthVars == <<chatVars, citeVars, pageVars, pipeVars>>
nonPageVars == <<chatVars, citeVars, pipeVars>>
nonPipeVars == <<chatVars, authVars, citeVars, pageVars>>
vars       == <<chatVars, authVars, citeVars, pageVars, pipeVars>>

(***************************************************************************)
(* Values.                                                                 *)
(***************************************************************************)
SessionId        == "s1"
STREAMING_MSG_ID == "__streaming__"
\* the i-th token the model generates in a stream
TokenAt(i)       == "tok-" \o ToString(i)
NoError          == "null"
NoCitations      == "null"
CitationList     == "citations"

TempId(n)      == "temp-" \o ToString(n)
UserMsgId(n)   == "user-" \o ToString(n)
AnswerMsgId(n) == "answer-" \o ToString(n)

Message(id, role, body, cits) ==
    [id |-> id, role |-> role, content |-> body, citations |-> cits]

NullSession == [loaded |-> FALSE, title |-> "none", messages |-> <<>>]

\* sendMessage calls that may overlap in one behaviour
MaxCalls == 2
SendCalls == 1..MaxCalls
NoStreamCalls == [c \in SendCalls |-> "none"]

RECURSIVE SelectSeqNot(_, _)
\* messages.filter((m) => !ids.has(m.id))
SelectSeqNot(msgs, ids) ==
    IF msgs = <<>> THEN <<>>
    ELSE IF Head(msgs).id \in ids
         THEN SelectSeqNot(Tail(msgs), ids)
         ELSE <<Head(msgs)>> \o SelectSeqNot(Tail(msgs), ids)

Front(s) == SubSeq(s, 1, Len(s) - 1)
Last(s)  == s[Len(s)]

(***************************************************************************)
(* The response body.  A string is a sequence of symbols: "E" stands for   *)
(* the text "event: ", "D" for "data: ", "N" for a newline, and every      *)
(* other symbol for an event name or a JSON payload.  A chunk boundary may *)
(* fall between any two symbols.                                           *)
(***************************************************************************)
EventBlock(type, payload) == <<"E", type, "N", "D", payload, "N", "N">>

RECURSIVE SplitEvents(_)
\* buffer.split("\n\n")
SplitEvents(s) ==
    IF \E i \in 1..(Len(s) - 1) : s[i] = "N" /\ s[i + 1] = "N"
    THEN LET i == CHOOSE k \in 1..(Len(s) - 1) :
                      /\ s[k] = "N" /\ s[k + 1] = "N"
                      /\ \A j \in 1..(k - 1) : ~(s[j] = "N" /\ s[j + 1] = "N")
         IN  <<SubSeq(s, 1, i - 1)>> \o SplitEvents(SubSeq(s, i + 2, Len(s)))
    ELSE <<s>>

RECURSIVE SplitLines(_)
\* part.split("\n")
SplitLines(s) ==
    IF \E i \in 1..Len(s) : s[i] = "N"
    THEN LET i == CHOOSE k \in 1..Len(s) :
                      s[k] = "N" /\ \A j \in 1..(k - 1) : s[j] # "N"
         IN  <<SubSeq(s, 1, i - 1)>> \o SplitLines(SubSeq(s, i + 1, Len(s)))
    ELSE <<s>>

\* !part.trim()
IsBlank(part) == \A i \in 1..Len(part) : part[i] = "N"

RECURSIVE ParseLines(_, _)
\* the for-loop over the lines of one part: the last event/data line wins
ParseLines(lines, acc) ==
    IF lines = <<>> THEN acc
    ELSE LET line == Head(lines) IN
         ParseLines(Tail(lines),
            IF line # <<>> /\ line[1] = "E"
            THEN [acc EXCEPT !.eventType = Tail(line)]
            ELSE IF line # <<>> /\ line[1] = "D"
                 THEN [acc EXCEPT !.dataStr = Tail(line)]
                 ELSE acc)

ParsePart(part) ==
    ParseLines(SplitLines(part), [eventType |-> <<>>, dataStr |-> <<>>])

(***************************************************************************)
(* The callbacks sendMessage hands to streamChatMessage.  Each maps the    *)
(* hook state h = [session, error, tokenBufferRef, rafRef] to the state    *)
(* after the callback; a setSession updater is applied where it is queued. *)
(***************************************************************************)
onUserMessage(h, data, tempId) ==
    IF ~h.session.loaded THEN h
    ELSE [h EXCEPT !.session.messages =
            SelectSeqNot(h.session.messages, {tempId})
            \o <<Message(data, "user", <<"q">>, NoCitations),
                 Message(STREAMING_MSG_ID, "assistant", <<>>, NoCitations)>>]

\* onContentDelta with `=` for `+=`: the buffer keeps only the newest token
onContentDeltaOverwrite(h, data) ==
    [h EXCEPT !.tokenBufferRef = <<data>>,
              !.rafRef = "scheduled"]

onContentDelta(h, data) ==
    [h EXCEPT !.tokenBufferRef = h.tokenBufferRef \o <<data>>,
              !.rafRef = "scheduled"]

\* the setSession updater shared by flushTokenBuffer, onCitations and onDone
AppendToStreaming(s, buffered, newId, newCitations) ==
    IF ~s.loaded THEN s
    ELSE IF s.messages = <<>> \/ Last(s.messages).id # STREAMING_MSG_ID THEN s
    ELSE LET last == Last(s.messages) IN
         [s EXCEPT !.messages = Front(s.messages) \o
            <<Message(IF newId = "keep" THEN last.id ELSE newId,
                      last.role,
                      last.content \o buffered,
                      IF newCitations = "keep" THEN last.citations
                      ELSE newCitations)>>]

onCitations(h, data) ==
    [h EXCEPT !.rafRef = "null",
              !.tokenBufferRef = <<>>,
              !.session = AppendToStreaming(h.session, h.tokenBufferRef,
                                            "keep", data)]

onTitle(h, data) ==
    IF h.session.loaded THEN [h EXCEPT !.session.title = data] ELSE h

onDone(h, data) ==
    [h EXCEPT !.rafRef = "null",
              !.tokenBufferRef = <<>>,
              !.session = AppendToStreaming(h.session, h.tokenBufferRef,
                                            data, "keep")]

onError(h, data) == [h EXCEPT !.error = data]


(***************************************************************************)
(* streamChatMessage: the body of the read loop.                           *)
(***************************************************************************)
KnownEvents ==
    {"user_message", "content_delta", "citations", "title", "done", "error"}

\* the switch over eventType: the one callback invoked for an event
InvokeCallback(h, type, data, tempId) ==
    CASE type = "user_message"  -> onUserMessage(h, data, tempId)
      [] type = "content_delta" -> onContentDelta(h, data)
      [] type = "citations"     -> onCitations(h, data)
      [] type = "title"         -> onTitle(h, data)
      [] type = "done"          -> onDone(h, data)
      [] type = "error"         -> onError(h, data)
      [] OTHER                  -> h

\* DispatchPart with the `break` after the "done" case missing: a done event
\* falls through into the "error" case
DispatchPartFallThrough(st, part, tempId) ==
    IF IsBlank(part) THEN st
    ELSE LET p == ParsePart(part) IN
         IF p.eventType = <<>> \/ p.dataStr = <<>> THEN st
         ELSE IF Len(p.dataStr) # 1
              THEN [st EXCEPT !.threw = TRUE]
         ELSE IF Len(p.eventType) # 1 \/ p.eventType[1] \notin KnownEvents
              THEN st
         ELSE LET type  == p.eventType[1]
                  data  == p.dataStr[1]
                  first == [st EXCEPT
                              !.h = InvokeCallback(st.h, type, data, tempId),
                              !.log = Append(st.log,
                                             [type |-> type, data |-> data])]
              IN  IF type = "done"
                  THEN [first EXCEPT
                          !.h = onError(first.h, data),
                          !.log = Append(first.log,
                                         [type |-> "error", data |-> data])]
                  ELSE first

\* one iteration of `for (const part of parts)`; st = [h, log, threw]
DispatchPart(st, part, tempId) ==
    IF IsBlank(part) THEN st
    ELSE LET p == ParsePart(part) IN
         IF p.eventType = <<>> \/ p.dataStr = <<>> THEN st
         ELSE IF Len(p.dataStr) # 1
              THEN [st EXCEPT !.threw = TRUE]   \* JSON.parse throws
         ELSE IF Len(p.eventType) # 1 \/ p.eventType[1] \notin KnownEvents
              THEN st
         ELSE [st EXCEPT
                 !.h = InvokeCallback(st.h, p.eventType[1], p.dataStr[1], tempId),
                 !.log = Append(st.log,
                            [type |-> p.eventType[1], data |-> p.dataStr[1]])]

RECURSIVE DispatchAllLastFirst(_, _, _)
\* DispatchAll iterating the parts from the last to the first
DispatchAllLastFirst(st, parts, tempId) ==
    IF parts = <<>> \/ st.threw THEN st
    ELSE DispatchAllLastFirst(DispatchPart(st, Last(parts), tempId),
                              Front(parts), tempId)

RECURSIVE DispatchAll(_, _, _)
\* the for-loop over the complete parts of the buffer, first to last
DispatchAll(st, parts, tempId) ==
    IF parts = <<>> \/ st.threw THEN st
    ELSE DispatchAll(DispatchPart(st, Head(parts), tempId), Tail(parts), tempId)

HookState ==
    [session |-> session, error |-> error,
     tokenBufferRef |-> tokenBufferRef, rafRef |-> rafRef]

(***************************************************************************)
(* sendMessage: how the wrapped stream promise settles.                    *)
(***************************************************************************)
\* catch (err) { setError(parseApiError(err)); setSession(filter) ; throw }
\* finally { pendingStreams.delete(sessionId); setSending(false) }
StreamRejects(h, message) ==
    /\ streamPc' = "rejected"
    /\ pendingStreams' = pendingStreams \ {SessionId}
    /\ IF orphaned
       THEN UNCHANGED <<error, session, tokenBufferRef, rafRef, sending>>
       ELSE /\ error' = message
            /\ session' = IF h.session.loaded
                          THEN [h.session EXCEPT !.messages =
                                  SelectSeqNot(h.session.messages,
                                               {tempUserMsgId, STREAMING_MSG_ID})]
                          ELSE h.session
            /\ tokenBufferRef' = h.tokenBufferRef
            /\ rafRef' = h.rafRef
            /\ sending' = FALSE

\* the promise resolves: only the finally block runs
StreamResolves(h) ==
    /\ streamPc' = "resolved"
    /\ pendingStreams' = pendingStreams \ {SessionId}
    /\ IF orphaned
       THEN UNCHANGED <<error, session, tokenBufferRef, rafRef, sending>>
       ELSE /\ error' = h.error
            /\ session' = h.session
            /\ tokenBufferRef' = h.tokenBufferRef
            /\ rafRef' = h.rafRef
            /\ sending' = FALSE

\* sendMessage(text) up to the first await inside streamChatMessage
SendMessage ==
    /\ ~sending
    /\ sendCount < MaxSends
    /\ sendCount' = sendCount + 1
    /\ tempUserMsgId' = TempId(sendCount + 1)
    /\ sending' = TRUE
    /\ error' = NoError
    /\ session' = IF session.loaded
                  THEN [session EXCEPT !.messages =
                          Append(session.messages,
                                 Message(TempId(sendCount + 1), "user",
                                         <<"q">>, NoCitations))]
                  ELSE session
    /\ pendingStreams' = pendingStreams \cup {SessionId}
    /\ streamPc' = "fetching"
    /\ buffer' = <<>>
    /\ resStatus' = 0
    /\ callbackLog' = <<>>
    /\ wire' = <<>>
    /\ wireClosed' = FALSE
    /\ serverPhase' = "idle"
    /\ produced' = <<>>
    /\ tokensAtSend' = tokenBufferRef
    /\ messagesAtSend' = session.messages
    /\ orphaned' = FALSE
    /\ UNCHANGED overlapVars
    /\ resBody' = <<>>
    /\ UNCHANGED <<tokenBufferRef, rafRef, loadPc, dbMessages, nonChatVars>>

\* fetch() resolves with res.ok
FetchOk ==
    /\ streamPc = "fetching"
    /\ streamPc' = "reading"
    /\ resStatus' = 200
    /\ serverPhase' = "accepted"
    /\ UNCHANGED <<hookVars, buffer, callbackLog, wire, wireClosed, produced,
                   resBody, dbMessages, tokensAtSend, messagesAtSend,
                   orphaned, overlapVars, nonChatVars>>

HttpErrors == {401, 429, 500}

\* fetch() resolves with !res.ok: throw new ApiError(res.status, detail)
FetchHttpError ==
    /\ streamPc = "fetching"
    /\ \E status \in HttpErrors :
         /\ resStatus' = status
         /\ StreamRejects(HookState, "Request failed (" \o ToString(status) \o ")")
    /\ UNCHANGED <<tempUserMsgId, loadPc, sendCount, buffer, callbackLog,
                   serverVars, tokensAtSend, messagesAtSend,
                   orphaned, overlapVars, nonChatVars>>

\* fetch() rejects (no connection, aborted)
FetchNetworkError ==
    /\ streamPc = "fetching"
    /\ StreamRejects(HookState, "Failed to fetch")
    /\ UNCHANGED <<tempUserMsgId, loadPc, sendCount, buffer, resStatus,
                   callbackLog, serverVars, tokensAtSend, messagesAtSend,
                   orphaned, overlapVars, nonChatVars>>

\* ReadChunk with `buffer = ""` for `buffer = parts.pop()`: the incomplete
\* last part is dropped
ReadChunkDropsRemainder ==
    /\ streamPc = "reading"
    /\ \E n \in 1..Len(wire) :
         LET buf   == buffer \o SubSeq(wire, 1, n)
             parts == SplitEvents(buf)
             st    == DispatchAll([h |-> HookState, log |-> callbackLog,
                                   threw |-> FALSE],
                                  Front(parts), tempUserMsgId)
         IN  /\ wire' = SubSeq(wire, n + 1, Len(wire))
             /\ buffer' = <<>>
             /\ callbackLog' = st.log
             /\ IF st.threw
                THEN StreamRejects(st.h, "Unexpected token")
                ELSE /\ streamPc' = "reading"
                     /\ IF orphaned
                        THEN UNCHANGED <<session, error, tokenBufferRef,
                                         rafRef>>
                        ELSE /\ session' = st.h.session
                             /\ error' = st.h.error
                             /\ tokenBufferRef' = st.h.tokenBufferRef
                             /\ rafRef' = st.h.rafRef
                     /\ UNCHANGED <<sending, pendingStreams>>
    /\ UNCHANGED <<tempUserMsgId, loadPc, sendCount, resStatus, wireClosed,
                   serverPhase, produced, resBody, dbMessages, tokensAtSend, messagesAtSend,
                   orphaned, overlapVars, nonChatVars>>

\* reader.read() yields a chunk of n symbols; every complete event in the
\* buffer is dispatched before the next read
ReadChunk ==
    /\ streamPc = "reading"
    /\ \E n \in 1..Len(wire) :
         LET buf   == buffer \o SubSeq(wire, 1, n)
             parts == SplitEvents(buf)
             st    == DispatchAll([h |-> HookState, log |-> callbackLog,
                                   threw |-> FALSE],
                                  Front(parts), tempUserMsgId)
         IN  /\ wire' = SubSeq(wire, n + 1, Len(wire))
             /\ buffer' = Last(parts)
             /\ callbackLog' = st.log
             /\ IF st.threw
                THEN StreamRejects(st.h, "Unexpected token")
                ELSE /\ streamPc' = "reading"
                     /\ IF orphaned
                        THEN UNCHANGED <<session, error, tokenBufferRef,
                                         rafRef>>
                        ELSE /\ session' = st.h.session
                             /\ error' = st.h.error
                             /\ tokenBufferRef' = st.h.tokenBufferRef
                             /\ rafRef' = st.h.rafRef
                     /\ UNCHANGED <<sending, pendingStreams>>
    /\ UNCHANGED <<tempUserMsgId, loadPc, sendCount, resStatus, wireClosed,
                   serverPhase, produced, resBody, dbMessages, tokensAtSend, messagesAtSend,
                   orphaned, overlapVars, nonChatVars>>

\* reader.read() reports done: break, the promise resolves
ReadDone ==
    /\ streamPc = "reading"
    /\ wire = <<>>
    /\ wireClosed
    /\ StreamResolves(HookState)
    /\ UNCHANGED <<tempUserMsgId, loadPc, sendCount, buffer, resStatus,
                   callbackLog, serverVars, tokensAtSend, messagesAtSend,
                   orphaned, overlapVars, nonChatVars>>

\* reader.read() rejects: the connection dropped or the request was aborted
ReadFails ==
    /\ streamPc = "reading"
    /\ StreamRejects(HookState, "network error")
    /\ UNCHANGED <<tempUserMsgId, loadPc, sendCount, buffer, resStatus,
                   callbackLog, serverVars, tokensAtSend, messagesAtSend,
                   orphaned, overlapVars, nonChatVars>>

\* flushTokenBuffer without `tokenBufferRef.current = ""`: the painted tokens
\* stay in the buffer
flushTokenBufferKeepsBuffer ==
    /\ rafRef = "scheduled"
    /\ rafRef' = "null"
    /\ tokenBufferRef' = tokenBufferRef
    /\ session' = IF tokenBufferRef = <<>> THEN session
                  ELSE AppendToStreaming(session, tokenBufferRef, "keep", "keep")
    /\ UNCHANGED <<sending, error, pendingStreams, tempUserMsgId, loadPc,
                   sendCount, streamVars, serverVars, tokensAtSend, messagesAtSend,
                   orphaned, overlapVars, nonChatVars>>

\* the animation frame requested by onContentDelta fires
flushTokenBuffer ==
    /\ rafRef = "scheduled"
    /\ rafRef' = "null"
    /\ tokenBufferRef' = <<>>
    /\ session' = IF tokenBufferRef = <<>> THEN session
                  ELSE AppendToStreaming(session, tokenBufferRef, "keep", "keep")
    /\ UNCHANGED <<sending, error, pendingStreams, tempUserMsgId, loadPc,
                   sendCount, streamVars, serverVars, tokensAtSend, messagesAtSend,
                   orphaned, overlapVars, nonChatVars>>

\* loadSession, no stream pending: getChatSession resolves, setSession(data)
LoadSessionOk ==
    /\ loadPc = "fetching"
    /\ loadPc' = "idle"
    /\ session' = [loaded |-> TRUE, title |-> "stored", messages |-> dbMessages]
    /\ UNCHANGED <<sending, error, tokenBufferRef, rafRef, pendingStreams,
                   tempUserMsgId, sendCount, streamVars, serverVars, tokensAtSend, messagesAtSend,
                   orphaned, overlapVars, nonChatVars>>

\* loadSession: getChatSession rejects, setError(parseApiError(err))
LoadSessionFails ==
    /\ loadPc = "fetching"
    /\ loadPc' = "idle"
    /\ error' = "Failed to fetch"
    /\ UNCHANGED <<session, sending, tokenBufferRef, rafRef, pendingStreams,
                   tempUserMsgId, sendCount, streamVars, serverVars, tokensAtSend, messagesAtSend,
                   orphaned, overlapVars, nonChatVars>>


(***************************************************************************)
(* The answer pipeline as the client sees it: the StreamEvent sequence of  *)
(* one streamed answer, written to the response body one event at a time.  *)
(***************************************************************************)
ServerCanEmit ==
    /\ streamPc = "reading"
    /\ ~wireClosed
    /\ Len(wire) <= MaxWire

Emit(type, payload) ==
    /\ wire' = wire \o EventBlock(type, payload)
    /\ resBody' = resBody \o EventBlock(type, payload)
    /\ produced' = Append(produced, [type |-> type, data |-> payload])

RECURSIVE TokensOf(_)
\* the content_delta payloads of an event sequence, in order
TokensOf(events) ==
    IF events = <<>> THEN <<>>
    ELSE IF Head(events).type = "content_delta"
         THEN <<Head(events).data>> \o TokensOf(Tail(events))
         ELSE TokensOf(Tail(events))

\* the persisted user turn is echoed first
ServerEmitUserMessage ==
    /\ ServerCanEmit
    /\ serverPhase = "accepted"
    /\ Emit("user_message", UserMsgId(sendCount))
    /\ serverPhase' = "generating"
    /\ dbMessages' = Append(dbMessages,
          Message(UserMsgId(sendCount), "user", <<"q">>, NoCitations))
    /\ UNCHANGED <<hookVars, streamVars, wireClosed, tokensAtSend, messagesAtSend,
                   orphaned, overlapVars, nonChatVars>>

\* GENERATING: one content_delta per token, as soon as it is available
ServerEmitContentDelta ==
    /\ ServerCanEmit
    /\ serverPhase = "generating"
    /\ Len(TokensOf(produced)) < MaxTokens
    /\ Emit("content_delta", TokenAt(Len(TokensOf(produced)) + 1))
    /\ UNCHANGED <<hookVars, streamVars, wireClosed, serverPhase, dbMessages,
                   tokensAtSend, messagesAtSend,
                   orphaned, overlapVars, nonChatVars>>

\* GENERATING -> CITING once the model signals completion; citations emitted
ServerEmitCitations ==
    /\ ServerCanEmit
    /\ serverPhase = "generating"
    /\ Emit("citations", CitationList)
    /\ serverPhase' = "cited"
    /\ UNCHANGED <<hookVars, streamVars, wireClosed, dbMessages, tokensAtSend, messagesAtSend,
                   orphaned, overlapVars, nonChatVars>>

\* the derived conversation title (conversational mode only)
ServerEmitTitle ==
    /\ ServerCanEmit
    /\ serverPhase = "cited"
    /\ \A i \in 1..Len(produced) : produced[i].type # "title"
    /\ Emit("title", "derived")
    /\ UNCHANGED <<hookVars, streamVars, wireClosed, serverPhase, dbMessages,
                   tokensAtSend, messagesAtSend,
                   orphaned, overlapVars, nonChatVars>>

\* DONE: the terminal marker; the finished turn is persisted, the body ends
ServerEmitDone ==
    /\ ServerCanEmit
    /\ serverPhase = "cited"
    /\ Emit("done", AnswerMsgId(sendCount))
    /\ serverPhase' = "closed"
    /\ wireClosed' = TRUE
    /\ dbMessages' = Append(dbMessages,
          Message(AnswerMsgId(sendCount), "assistant", TokensOf(produced),
                  CitationList))
    /\ UNCHANGED <<hookVars, streamVars, tokensAtSend, messagesAtSend,
                   orphaned, overlapVars, nonChatVars>>

\* FAILED: an error event before any citation list; the body ends
ServerEmitError ==
    /\ ServerCanEmit
    /\ serverPhase \in {"accepted", "generating"}
    /\ Emit("error", "generation failed")
    /\ serverPhase' = "closed"
    /\ wireClosed' = TRUE
    /\ UNCHANGED <<hookVars, streamVars, dbMessages, tokensAtSend, messagesAtSend,
                   orphaned, overlapVars, nonChatVars>>

\* the response body ends without a terminal event (the generator stops,
\* or an intermediary closes the response)
BodyEndsEarly ==
    /\ streamPc = "reading"
    /\ ~wireClosed
    /\ serverPhase \in {"accepted", "generating", "cited"}
    /\ serverPhase' = "closed"
    /\ wireClosed' = TRUE
    /\ UNCHANGED <<hookVars, streamVars, wire, produced, resBody, dbMessages, tokensAtSend, messagesAtSend,
                   orphaned, overlapVars, nonChatVars>>

(***************************************************************************)
(* The chat specification: one mounted useChat(SessionId).                 *)
(***************************************************************************)
StoredMessages ==
    <<Message(UserMsgId(0), "user", <<"q">>, NoCitations),
      Message(AnswerMsgId(0), "assistant", <<TokenAt(1)>>, CitationList)>>

\* API calls that may overlap
NumCallers == 2
\* login() calls in one behaviour
MaxLogins == 1
\* visits of the forgot-password page that are compared
NumVisits == 2

Callers == 1..NumCallers
Visits  == 1..NumVisits

NoApiError == [status |-> 200, request |-> 0]
\* the error thrown for the given request of a call
ApiError(status, request) == [status |-> status, request |-> request]

IdleCall ==
    [pc |-> "idle", op |-> "none", requests |-> 0, refreshes |-> 0,
     awaitedRefresh |-> FALSE, sentToken |-> 0, retryToken |-> 0,
     refreshedToken |-> 0, firstError |-> NoApiError, thrown |-> NoApiError]

FreshForgotPage ==
    [email |-> "", error |-> "", submitted |-> FALSE, submitting |-> FALSE,
     pc |-> "form", outcome |-> "none"]

\* lib/api-client.ts as the module is loaded
InitAuthParked ==
    /\ refreshRequests = 0
    /\ accessToken = 0
    /\ isRefreshing = FALSE
    /\ refreshPromise = "null"
    /\ calls = [p \in Callers |-> IdleCall]
    /\ tokensIssued = 0
    /\ logins = 0

\* no pipeline run
InitPipeParked ==
    /\ pState = "IDLE"
    /\ intent = "none"
    /\ phrases = <<>>
    /\ searches = <<>>
    /\ retained = {}
    /\ fused = <<>>
    /\ pEvents = <<>>
    /\ modelDone = FALSE
    /\ failCause = "parked"
    /\ fallbacks = {}

InitPageParked ==
    /\ user = "null"
    /\ isLoading = TRUE
    /\ authPc = "parked"
    /\ route = "/"
    /\ forgot = [v \in Visits |-> FreshForgotPage]

InitCiteParked ==
    /\ content = <<>>
    /\ citations = <<>>
    /\ nodes = <<>>
    /\ lightboxIndex = 0
    /\ citePc = "parked"

\* the hook and the stream reader before the first send
InitChatVars ==
    /\ session = NullSession
    /\ sending = FALSE
    /\ error = NoError
    /\ tokenBufferRef = <<>>
    /\ rafRef = "null"
    /\ pendingStreams = {}
    /\ tempUserMsgId = TempId(0)
    /\ loadPc = "fetching"
    /\ sendCount = 0
    /\ streamPc = "idle"
    /\ buffer = <<>>
    /\ resStatus = 0
    /\ callbackLog = <<>>
    /\ tokensAtSend = <<>>
    /\ messagesAtSend = <<>>
    /\ orphaned = FALSE
    /\ renderedSending = FALSE
    /\ streamCalls = NoStreamCalls
    /\ resBody = <<>>
    /\ wire = <<>>
    /\ wireClosed = FALSE
    /\ serverPhase = "idle"
    /\ produced = <<>>
    /\ dbMessages = StoredMessages

InitChat ==
    /\ InitChatVars
    /\ InitAuthParked
    /\ InitCiteParked
    /\ InitPageParked
    /\ InitPipeParked

NextChat ==
    \/ SendMessage
    \/ FetchOk
    \/ FetchHttpError
    \/ FetchNetworkError
    \/ ReadChunk
    \/ ReadDone
    \/ ReadFails
    \/ flushTokenBuffer
    \/ LoadSessionOk
    \/ LoadSessionFails
    \/ ServerEmitUserMessage
    \/ ServerEmitContentDelta
    \/ ServerEmitCitations
    \/ ServerEmitTitle
    \/ ServerEmitDone
    \/ ServerEmitError
    \/ BodyEndsEarly

SpecChat == InitChat /\ [][NextChat]_vars

(***************************************************************************)
(* The read loop alone: a response body that is already written in full    *)
(* and is read in chunks of any sizes.  The body is any concatenation of   *)
(* at most MaxPieces pieces: well-formed event blocks, a block whose data  *)
(* is not JSON, and stray symbols (so blank parts, unknown event names,    *)
(* missing lines and runs of newlines all occur).                          *)
(***************************************************************************)
MaxPieces == 3

Pieces ==
    {EventBlock("user_message", UserMsgId(1)),
     EventBlock("content_delta", TokenAt(1)),
     EventBlock("done", AnswerMsgId(1)),
     <<"E", "content_delta", "N", "D", "{", "x", "N", "N">>,
     <<"N">>, <<"E">>, <<"D">>, <<"x">>}

RECURSIVE Bodies(_)
Bodies(n) ==
    IF n = 0 THEN {<<>>}
    ELSE Bodies(n - 1) \cup {b \o p : b \in Bodies(n - 1), p \in Pieces}

\* the state of a send whose fetch resolved, the whole body on the wire
InitSplit ==
    /\ session = [loaded |-> TRUE, title |-> "stored",
                  messages |-> Append(StoredMessages,
                                      Message(TempId(1), "user", <<"q">>,
                                              NoCitations))]
    /\ sending = TRUE
    /\ error = NoError
    /\ tokenBufferRef = <<>>
    /\ rafRef = "null"
    /\ pendingStreams = {SessionId}
    /\ tempUserMsgId = TempId(1)
    /\ loadPc = "idle"
    /\ sendCount = 1
    /\ streamPc = "reading"
    /\ buffer = <<>>
    /\ resStatus = 200
    /\ callbackLog = <<>>
    /\ tokensAtSend = <<>>
    /\ messagesAtSend = StoredMessages
    /\ orphaned = FALSE
    /\ renderedSending = FALSE
    /\ streamCalls = NoStreamCalls
    /\ wire \in Bodies(MaxPieces)
    /\ resBody = wire
    /\ wireClosed = TRUE
    /\ serverPhase = "closed"
    /\ produced = <<>>
    /\ dbMessages = StoredMessages
    /\ InitAuthParked
    /\ InitCiteParked
    /\ InitPageParked
    /\ InitPipeParked

NextSplit ==
    \/ ReadChunk
    \/ ReadDone

SpecSplit == InitSplit /\ [][NextSplit]_vars

(***************************************************************************)
(* A send in a session whose previous answer ended with an error event:    *)
(* that stream resolved, so its placeholder, with the text received, is    *)
(* still the last message and still has the id STREAMING_MSG_ID.           *)
(***************************************************************************)
InterruptedAnswer ==
    <<Message(UserMsgId(0), "user", <<"q">>, NoCitations),
      Message(STREAMING_MSG_ID, "assistant", <<TokenAt(1)>>, NoCitations)>>

InitResend ==
    /\ session = [loaded |-> TRUE, title |-> "stored",
                  messages |-> InterruptedAnswer]
    /\ sending = FALSE
    /\ error = "generation failed"
    /\ tokenBufferRef = <<>>
    /\ rafRef = "null"
    /\ pendingStreams = {}
    /\ tempUserMsgId = TempId(0)
    /\ loadPc = "idle"
    /\ sendCount = 0
    /\ streamPc = "resolved"
    /\ buffer = <<>>
    /\ resStatus = 200
    /\ callbackLog = <<>>
    /\ tokensAtSend = <<>>
    /\ messagesAtSend = <<>>
    /\ orphaned = FALSE
    /\ renderedSending = FALSE
    /\ streamCalls = NoStreamCalls
    /\ wire = <<>>
    /\ resBody = <<>>
    /\ wireClosed = TRUE
    /\ serverPhase = "closed"
    /\ produced = <<>>
    /\ dbMessages = <<Message(UserMsgId(0), "user", <<"q">>, NoCitations)>>
    /\ InitAuthParked
    /\ InitCiteParked
    /\ InitPageParked
    /\ InitPipeParked

NextResend ==
    \/ SendMessage
    \/ FetchOk
    \/ FetchHttpError
    \/ FetchNetworkError
    \/ ReadChunk
    \/ ReadDone
    \/ ReadFails
    \/ flushTokenBuffer
    \/ ServerEmitUserMessage
    \/ ServerEmitContentDelta
    \/ ServerEmitCitations
    \/ ServerEmitTitle
    \/ ServerEmitDone
    \/ ServerEmitError
    \/ BodyEndsEarly

SpecResend == InitResend /\ [][NextResend]_vars

(***************************************************************************)
(* The component that calls useChat(SessionId) unmounts and mounts again   *)
(* (the user leaves the chat and comes back).  pendingStreams is a module  *)
(* variable and outlives the instance; the callbacks and the finally block *)
(* of a stream in flight keep the setters and refs of the instance that    *)
(* started it, which no longer show.                                       *)
(***************************************************************************)
\* the optimistic message kept in the session's pendingStreams entry
OptimisticMessage == Message(tempUserMsgId, "user", <<"q">>, NoCitations)

\* first render of the new instance: the useState / useRef initialisers
Remount ==
    /\ loadPc # "mounted"
    /\ session' = NullSession
    /\ sending' = (SessionId \in pendingStreams)
    /\ error' = NoError
    /\ tokenBufferRef' = <<>>
    /\ rafRef' = "null"
    /\ loadPc' = "mounted"
    /\ orphaned' = (SessionId \in pendingStreams)
    /\ UNCHANGED overlapVars
    /\ UNCHANGED <<pendingStreams, tempUserMsgId, sendCount, streamVars,
                   serverVars, tokensAtSend, messagesAtSend, nonChatVars>>

\* the mount effect calls loadSession: setError(null), pendingStreams.get
LoadSessionStart ==
    /\ loadPc = "mounted"
    /\ error' = NoError
    /\ IF SessionId \in pendingStreams
       THEN /\ sending' = TRUE
            /\ loadPc' = "pending-fetch"
       ELSE /\ loadPc' = "fetching"
            /\ UNCHANGED sending
    /\ UNCHANGED <<session, tokenBufferRef, rafRef, pendingStreams,
                   tempUserMsgId, sendCount, streamVars, serverVars,
                   tokensAtSend, messagesAtSend, orphaned, overlapVars, nonChatVars>>

\* pending branch: getChatSession resolves, the optimistic message is added
PendingFetchOk ==
    /\ loadPc = "pending-fetch"
    /\ loadPc' = "pending-await"
    /\ session' = [loaded |-> TRUE, title |-> "stored",
                   messages |-> Append(dbMessages, OptimisticMessage)]
    /\ UNCHANGED <<sending, error, tokenBufferRef, rafRef, pendingStreams,
                   tempUserMsgId, sendCount, streamVars, serverVars,
                   tokensAtSend, messagesAtSend, orphaned, overlapVars, nonChatVars>>

\* pending branch: getChatSession rejects, the empty catch
PendingFetchFails ==
    /\ loadPc = "pending-fetch"
    /\ loadPc' = "pending-await"
    /\ UNCHANGED <<session, sending, error, tokenBufferRef, rafRef,
                   pendingStreams, tempUserMsgId, sendCount, streamVars,
                   serverVars, tokensAtSend, messagesAtSend, orphaned, overlapVars,
                   nonChatVars>>

\* pending branch: `await pending.promise` returns or throws once the stream
\* has settled; setSending(false), then the plain reload starts
PendingPromiseSettles ==
    /\ loadPc = "pending-await"
    /\ SessionId \notin pendingStreams
    /\ sending' = FALSE
    /\ loadPc' = "fetching"
    /\ UNCHANGED <<session, error, tokenBufferRef, rafRef, pendingStreams,
                   tempUserMsgId, sendCount, streamVars, serverVars,
                   tokensAtSend, messagesAtSend, orphaned, overlapVars, nonChatVars>>

NextRemount ==
    \/ NextChat
    \/ Remount
    \/ LoadSessionStart
    \/ PendingFetchOk
    \/ PendingFetchFails
    \/ PendingPromiseSettles

SpecRemount == InitChat /\ [][NextRemount]_vars

(***************************************************************************)
(* Overlapping sends.  sendMessage is a useCallback over [sending]: its    *)
(* guard reads the `sending` of the render that created the closure, and   *)
(* setSending only takes effect for the closure of the next render.  Every *)
(* call that passes the guard starts a streamChatMessage call of its own;  *)
(* streamCalls[c] is the position of the one call c started:               *)
(* "none" | "fetching" | "streaming" | "done" | "resolved" | "rejected".   *)
(* Tokens are left out: they play no part in the guard or in the map.      *)
(***************************************************************************)
InFlight(c) == streamCalls[c] \in {"fetching", "streaming", "done"}

\* the component re-renders: useCallback builds sendMessage over the
\* current `sending`
Rerender ==
    /\ renderedSending # sending
    /\ renderedSending' = sending
    /\ UNCHANGED <<hookVars, streamVars, serverVars, tokensAtSend,
                   messagesAtSend, orphaned, streamCalls, nonChatVars>>

\* the guard of sendMessage: if (!text.trim() || sending) return
SendGuard(text) == text # "" /\ ~renderedSending

\* sendMessage(text) up to the first await, pendingStreams.set included
SendMessageCall(text) ==
    /\ sendCount < MaxCalls
    /\ SendGuard(text)
    /\ sendCount' = sendCount + 1
    /\ tempUserMsgId' = TempId(sendCount + 1)
    /\ sending' = TRUE
    /\ error' = NoError
    /\ session' = IF session.loaded
                  THEN [session EXCEPT !.messages =
                          Append(session.messages,
                                 Message(TempId(sendCount + 1), "user",
                                         <<text>>, NoCitations))]
                  ELSE session
    /\ streamCalls' = [streamCalls EXCEPT ![sendCount + 1] = "fetching"]
    /\ pendingStreams' = pendingStreams \cup {SessionId}
    /\ UNCHANGED <<tokenBufferRef, rafRef, loadPc, streamVars, serverVars,
                   tokensAtSend, messagesAtSend, orphaned, renderedSending,
                   nonChatVars>>

\* onUserMessage of call c: the temporary message gives way to the stored
\* one and the placeholder is appended
CallOnUserMessage(c) ==
    /\ streamCalls[c] = "fetching"
    /\ streamCalls' = [streamCalls EXCEPT ![c] = "streaming"]
    /\ session' = IF session.loaded
                  THEN [session EXCEPT !.messages =
                          SelectSeqNot(session.messages, {TempId(c)})
                          \o <<Message(UserMsgId(c), "user", <<"q">>,
                                       NoCitations),
                               Message(STREAMING_MSG_ID, "assistant", <<>>,
                                       NoCitations)>>]
                  ELSE session
    /\ UNCHANGED <<sending, error, tokenBufferRef, rafRef, pendingStreams,
                   tempUserMsgId, loadPc, sendCount, streamVars, serverVars,
                   tokensAtSend, messagesAtSend, orphaned, renderedSending,
                   nonChatVars>>

\* onDone of call c: the last message, if it is the placeholder, takes the
\* stored id
CallOnDone(c) ==
    /\ streamCalls[c] = "streaming"
    /\ streamCalls' = [streamCalls EXCEPT ![c] = "done"]
    /\ session' = IF /\ session.loaded
                     /\ session.messages # <<>>
                     /\ Last(session.messages).id = STREAMING_MSG_ID
                  THEN [session EXCEPT !.messages =
                          Front(session.messages)
                          \o <<[Last(session.messages) EXCEPT
                                  !.id = AnswerMsgId(c)]>>]
                  ELSE session
    /\ UNCHANGED <<sending, error, tokenBufferRef, rafRef, pendingStreams,
                   tempUserMsgId, loadPc, sendCount, streamVars, serverVars,
                   tokensAtSend, messagesAtSend, orphaned, renderedSending,
                   nonChatVars>>

\* onError of call c: setError(data.detail)
CallOnError(c) ==
    /\ streamCalls[c] \in {"fetching", "streaming"}
    /\ streamCalls' = [streamCalls EXCEPT ![c] = "done"]
    /\ error' = "generation failed"
    /\ UNCHANGED <<session, sending, tokenBufferRef, rafRef, pendingStreams,
                   tempUserMsgId, loadPc, sendCount, streamVars, serverVars,
                   tokensAtSend, messagesAtSend, orphaned, renderedSending,
                   nonChatVars>>

\* streamChatMessage of call c resolves (the body ended); finally
StreamPromiseResolves(c) ==
    /\ InFlight(c)
    /\ streamCalls' = [streamCalls EXCEPT ![c] = "resolved"]
    /\ pendingStreams' = pendingStreams \ {SessionId}
    /\ sending' = FALSE
    /\ UNCHANGED <<session, error, tokenBufferRef, rafRef, tempUserMsgId,
                   loadPc, sendCount, streamVars, serverVars, tokensAtSend,
                   messagesAtSend, orphaned, renderedSending, nonChatVars>>

\* streamChatMessage of call c rejects; catch, then finally
StreamPromiseRejects(c) ==
    /\ streamCalls[c] \in {"fetching", "streaming"}
    /\ streamCalls' = [streamCalls EXCEPT ![c] = "rejected"]
    /\ error' = "Failed to fetch"
    /\ session' = IF session.loaded
                  THEN [session EXCEPT !.messages =
                          SelectSeqNot(session.messages,
                                       {TempId(c), STREAMING_MSG_ID})]
                  ELSE session
    /\ pendingStreams' = pendingStreams \ {SessionId}
    /\ sending' = FALSE
    /\ UNCHANGED <<tokenBufferRef, rafRef, tempUserMsgId, loadPc, sendCount,
                   streamVars, serverVars, tokensAtSend, messagesAtSend,
                   orphaned, renderedSending, nonChatVars>>

NextOverlap ==
    \/ LoadSessionOk
    \/ LoadSessionFails
    \/ Rerender
    \/ \E text \in {"", "q", "r"} : SendMessageCall(text)
    \/ \E c \in SendCalls : CallOnUserMessage(c)
    \/ \E c \in SendCalls : CallOnDone(c)
    \/ \E c \in SendCalls : CallOnError(c)
    \/ \E c \in SendCalls : StreamPromiseResolves(c)
    \/ \E c \in SendCalls : StreamPromiseRejects(c)

SpecOverlap == InitChat /\ [][NextOverlap]_vars

(***************************************************************************)
(* Properties of one streamed answer (checked under SpecChat).             *)
(***************************************************************************)
IsPrefix(s, t) == Len(s) <= Len(t) /\ SubSeq(t, 1, Len(s)) = s

IsTerminal(e) == e.type \in {"done", "error"}

Handled(type) == \E i \in 1..Len(callbackLog) : callbackLog[i].type = type

Settled == streamPc \in {"resolved", "rejected"}

\* the streaming placeholder is the last message of the loaded session
HasPlaceholder ==
    /\ session.loaded
    /\ session.messages # <<>>
    /\ Last(session.messages).id = STREAMING_MSG_ID

\* C1: the callbacks of a stream are invoked in the order the server
\* produced the events: the invoked callbacks are a prefix of the produced
\* events, every content_delta comes before citations, citations before done.
C1_StreamingOrder ==
    /\ IsPrefix(callbackLog, produced)
    /\ \A i, j \in 1..Len(callbackLog) :
         /\ (callbackLog[i].type = "content_delta"
               /\ callbackLog[j].type = "citations") => i < j
         /\ (callbackLog[i].type = "citations"
               /\ callbackLog[j].type = "done") => i < j

\* C1 witness: a whole answer was delivered: two tokens, citations, done
C1_Witness ==
    /\ TokensOf(callbackLog) = <<TokenAt(1), TokenAt(2)>>
    /\ Handled("citations")
    /\ callbackLog # <<>> /\ Last(callbackLog).type = "done"

\* C2 as stated: every settled stream has invoked exactly one of
\* onDone / onError, and that call was its last callback.
C2_ExactlyOneTerminal ==
    Settled =>
        /\ Cardinality({i \in 1..Len(callbackLog) : IsTerminal(callbackLog[i])}) = 1
        /\ IsTerminal(Last(callbackLog))

\* C2 amended: a terminal callback is always the last callback of its stream
\* (so at most one is invoked and nothing follows it), and when the body is
\* read to its end after the server wrote a terminal event, every produced
\* event was dispatched, the terminal one last.
C2_TerminalIsLast ==
    /\ \A i \in 1..Len(callbackLog) :
         IsTerminal(callbackLog[i]) => i = Len(callbackLog)
    /\ (streamPc = "resolved"
          /\ \E i \in 1..Len(produced) : IsTerminal(produced[i]))
         => /\ callbackLog = produced
            /\ IsTerminal(Last(callbackLog))

\* C2 witness: a stream read to its end whose last callback was onError
C2_Witness ==
    /\ streamPc = "resolved"
    /\ Len(callbackLog) >= 3
    /\ Last(callbackLog).type = "error"

\* the case of C4: an error event was handled after k >= 1 tokens of a stream
\* that is still open or was read to its end, the placeholder is shown, and
\* the send found the token buffer empty
C4_Case ==
    /\ Handled("error")
    /\ Len(TokensOf(callbackLog)) >= 1
    /\ streamPc \in {"reading", "resolved"}
    /\ HasPlaceholder
    /\ tokensAtSend = <<>>

C5_NeverSilent ==
    (Settled /\ ~sending /\ ~Handled("done")) => error # NoError

\* C6: when the stream is cut off (reader.read() rejects) no further callback
\* is invoked and the assistant text already shown stays in the message list.
C6_PartialOutputKept ==
    [][(/\ streamPc = "reading" /\ streamPc' = "rejected"
        /\ HasPlaceholder
        /\ Last(session.messages).content # <<>>)
       => /\ callbackLog' = callbackLog
          /\ \E j \in 1..Len(session'.messages) :
                /\ session'.messages[j].id = STREAMING_MSG_ID
                /\ session'.messages[j].content
                     = Last(session.messages).content]_vars

(***************************************************************************)
(* The citation renderer (lib/markdown-citations.tsx) and the lightbox     *)
(* state of CitationMarkdown.  A text is a sequence of characters;         *)
(* positions are counted from 1, so the model's position i is the source's *)
(* string index i - 1.                                                     *)
(***************************************************************************)
\* longest text handed to the renderer
MaxTextLen == 6
\* longest citation list of a message
MaxCitations == 2

Chars == {"[", "]", "0", "1", "2"}
DigitValue == [c \in {"0", "1", "2", "3", "4", "5", "6", "7", "8", "9"} |->
                 CASE c = "0" -> 0 [] c = "1" -> 1 [] c = "2" -> 2
                   [] c = "3" -> 3 [] c = "4" -> 4 [] c = "5" -> 5
                   [] c = "6" -> 6 [] c = "7" -> 7 [] c = "8" -> 8
                   [] c = "9" -> 9]
IsDigit(c) == c \in DOMAIN DigitValue

\* the i-th citation of a message: citations are pairwise distinct passages
Citation(i) == "passage-" \o ToString(i)

TextNode(s) ==
    [kind |-> "text", text |-> s, key |-> 0, citation |-> "none", num |-> 0]
\* <CitationLink key={`cit-${match.index}`} citation=... onClick={() => onClick(num)} />
LinkNode(index, citation, num) ==
    [kind |-> "link", text |-> <<>>, key |-> index, citation |-> citation,
     num |-> num]

RECURSIVE DigitRun(_, _)
\* \d+ : the number of digits that start at position i
DigitRun(text, i) ==
    IF i <= Len(text) /\ IsDigit(text[i]) THEN 1 + DigitRun(text, i + 1) ELSE 0

\* length of the match of /\[(\d+)\]/ that starts at position i, 0 if none
MatchLengthAt(text, i) ==
    IF i <= Len(text) /\ text[i] = "["
    THEN LET d == DigitRun(text, i + 1) IN
         IF d >= 1 /\ i + 1 + d <= Len(text) /\ text[i + 1 + d] = "]"
         THEN d + 2 ELSE 0
    ELSE 0

\* CITATION_RE.exec(text) with the regex's lastIndex at position from:
\* the leftmost match at or after from; index 0 stands for null
CITATION_RE_exec(text, from) ==
    IF \E i \in from..Len(text) : MatchLengthAt(text, i) > 0
    THEN LET i == CHOOSE k \in from..Len(text) :
                      /\ MatchLengthAt(text, k) > 0
                      /\ \A j \in from..(k - 1) : MatchLengthAt(text, j) = 0
         IN  [index |-> i, length |-> MatchLengthAt(text, i)]
    ELSE [index |-> 0, length |-> 0]

RECURSIVE parseIntFrom(_, _)
parseIntFrom(digits, acc) ==
    IF digits = <<>> THEN acc
    ELSE parseIntFrom(Tail(digits), acc * 10 + DigitValue[Head(digits)])

\* parseInt(match[1], 10)
parseInt(digits) == parseIntFrom(digits, 0)

\* a reference beyond the list bound to the last citation instead of being
\* kept as text
CitationNodeClamped(citationList, index, num, matched) ==
    IF num >= 1 /\ Len(citationList) >= 1
    THEN LinkNode(index,
                  citationList[IF num <= Len(citationList)
                               THEN num ELSE Len(citationList)],
                  num)
    ELSE TextNode(matched)

\* the node pushed for one match: a link for a valid reference, match[0] else
CitationNode(citationList, index, num, matched) ==
    IF num >= 1 /\ num <= Len(citationList)
    THEN LinkNode(index, citationList[num], num)
    ELSE TextNode(matched)

RECURSIVE RenderLoop(_, _, _, _, _)
\* the while loop; lastIndex is the position of the first character not yet
\* emitted, reLastIndex the position the regex resumes from
RenderLoop(text, citationList, lastIndex, reLastIndex, acc) ==
    LET match == CITATION_RE_exec(text, reLastIndex) IN
    IF match.index = 0
    THEN IF lastIndex <= Len(text)
         THEN acc \o <<TextNode(SubSeq(text, lastIndex, Len(text)))>>
         ELSE acc
    ELSE LET matched == SubSeq(text, match.index,
                               match.index + match.length - 1)
             num     == parseInt(SubSeq(matched, 2, match.length - 1))
             before  == IF match.index > lastIndex
                        THEN <<TextNode(SubSeq(text, lastIndex,
                                               match.index - 1))>>
                        ELSE <<>>
         IN  RenderLoop(text, citationList,
                        match.index + match.length,
                        match.index + match.length,
                        acc \o before
                            \o <<CitationNode(citationList, match.index,
                                              num, matched)>>)

renderTextWithCitations(text, citationList) ==
    RenderLoop(text, citationList, 1, 1, <<>>)

\* the citation the lightbox shows; "none" stands for null
activeCitation ==
    IF lightboxIndex # 0 /\ lightboxIndex >= 1
       /\ lightboxIndex <= Len(citations)
    THEN citations[lightboxIndex]
    ELSE "none"

\* processChildren: a string child of a markdown element is rendered
Render ==
    /\ citePc = "input"
    /\ nodes' = renderTextWithCitations(content, citations)
    /\ citePc' = "rendered"
    /\ UNCHANGED <<content, citations, lightboxIndex, nonCiteVars>>

\* a click on a rendered CitationLink: onClick(num) -> setLightboxIndex(num)
handleCitationClick ==
    /\ citePc = "rendered"
    /\ \E n \in 1..Len(nodes) :
          /\ nodes[n].kind = "link"
          /\ lightboxIndex' = nodes[n].num
    /\ UNCHANGED <<content, citations, nodes, citePc, nonCiteVars>>

\* onOpenChange(false): setLightboxIndex(null)
CloseLightbox ==
    /\ lightboxIndex # 0
    /\ lightboxIndex' = 0
    /\ UNCHANGED <<content, citations, nodes, citePc, nonCiteVars>>

Texts == UNION {[1..n -> Chars] : n \in 0..MaxTextLen}
CitationLists == {[i \in 1..n |-> Citation(i)] : n \in 0..MaxCitations}

\* CitationMarkdown mounted with some content and some citation list
InitCite ==
    /\ content \in Texts
    /\ citations \in CitationLists
    /\ nodes = <<>>
    /\ lightboxIndex = 0
    /\ citePc = "input"
    /\ InitChatVars
    /\ InitAuthParked
    /\ InitPageParked
    /\ InitPipeParked

NextCite ==
    \/ Render
    \/ handleCitationClick
    \/ CloseLightbox

SpecCite == InitCite /\ [][NextCite]_vars

(***************************************************************************)
(* C3: citation rendering.                                                 *)
(***************************************************************************)
\* position i of t starts a well-formed reference "[digits]" that ends at j
IsReferenceFromTo(t, i, j) ==
    /\ 1 <= i /\ i + 2 <= j /\ j <= Len(t)
    /\ t[i] = "[" /\ t[j] = "]"
    /\ \A m \in (i + 1)..(j - 1) : IsDigit(t[m])

IsReference(t, i) == \E j \in 1..Len(t) : IsReferenceFromTo(t, i, j)
ReferenceEnd(t, i) == CHOOSE j \in 1..Len(t) : IsReferenceFromTo(t, i, j)

RECURSIVE Decimal(_)
Decimal(ds) ==
    IF ds = <<>> THEN 0 ELSE Decimal(Front(ds)) * 10 + DigitValue[Last(ds)]

\* the number k a reference "[k]" at position i denotes
ReferenceNumber(t, i) == Decimal(SubSeq(t, i + 1, ReferenceEnd(t, i) - 1))

RECURSIVE SourceOf(_, _)
\* the source text the node list stands for: a text node stands for its
\* text, a link for the reference that starts at the link's position
SourceOf(t, ns) ==
    IF ns = <<>> THEN <<>>
    ELSE LET n == Head(ns) IN
         (IF n.kind = "text" THEN n.text
          ELSE IF IsReference(t, n.key)
               THEN SubSeq(t, n.key, ReferenceEnd(t, n.key))
               ELSE <<"?">>)
         \o SourceOf(t, Tail(ns))

\* C3: every rendered link stands at a reference [k] with 1 <= k <= N and is
\* bound to the k-th citation (a click opens that citation); every reference
\* with k in range is rendered as a link; everything else, out-of-range
\* references included, is literal text at the same position.
C3_CitationRendering ==
    citePc = "rendered" =>
        /\ \A n \in 1..Len(nodes) :
              nodes[n].kind = "link" =>
                  /\ IsReference(content, nodes[n].key)
                  /\ nodes[n].num = ReferenceNumber(content, nodes[n].key)
                  /\ nodes[n].num \in 1..Len(citations)
                  /\ nodes[n].citation = Citation(nodes[n].num)
                  /\ nodes[n].citation = citations[nodes[n].num]
        /\ \A i \in 1..Len(content) :
              (IsReference(content, i)
                 /\ ReferenceNumber(content, i) \in 1..Len(citations))
              => \E n \in 1..Len(nodes) :
                    nodes[n].kind = "link" /\ nodes[n].key = i
        /\ SourceOf(content, nodes) = content
        /\ lightboxIndex # 0 =>
              /\ lightboxIndex \in 1..Len(citations)
              /\ activeCitation = Citation(lightboxIndex)

\* C3 witness: "[2][0]" rendered against two citations: a link bound to the
\* second citation followed by the literal text "[0]", and the link clicked
C3_Witness ==
    /\ citePc = "rendered"
    /\ content = <<"[", "2", "]", "[", "0", "]">>
    /\ Len(citations) = 2
    /\ nodes = <<LinkNode(1, Citation(2), 2), TextNode(<<"[", "0", "]">>)>>
    /\ lightboxIndex = 2

(***************************************************************************)
(* authFetch, ensureValidToken, refreshToken, login and the fetch of       *)
(* streamChatMessage (lib/api-client.ts).  Each caller makes one API call. *)
(* A promise continuation runs to its next await as one step: the          *)
(* continuations of one settled promise run back to back, before the next  *)
(* network event is delivered.                                             *)
(***************************************************************************)
\* operations that go through authFetch (getMe, getUsage, postQuery, the
\* admin and chat-session calls, ...): they differ only in the path and the
\* options, which authFetch passes on unchanged, so one stands for all
AuthFetchOps == {"getMe"}
StreamOp == "streamChatMessage"
LogoutOp == "logout"
\* the operations that go through authFetch
ViaAuthFetch == AuthFetchOps \cup {LogoutOp}
\* what a request can fail with: 401, or anything else (another status, or
\* fetch rejecting), which the code treats alike and 500 stands for
Failures == {401, 500}

\* the second apiFetch of authFetch, after ensureValidToken() resolved:
\* buildHeaders() reads the access token the refresh has just set
RetryRequest(c, token) ==
    [c EXCEPT !.pc = "retry", !.requests = @ + 1,
              !.retryToken = token, !.refreshedToken = token]

\* the inner catch rethrowing what it caught instead of the original error
AuthFetchCatchInner(c, caught) ==
    [c EXCEPT !.pc = "thrown", !.thrown = caught]

\* the inner catch of authFetch: throw err, the error of the first request
AuthFetchCatch(c, caught) ==
    [c EXCEPT !.pc = "thrown", !.thrown = c.firstError]

\* login(): the response to POST /auth/login arrives, setAccessToken
LoginResponseOk ==
    /\ logins < MaxLogins
    /\ logins' = logins + 1
    /\ tokensIssued' = tokensIssued + 1
    /\ accessToken' = tokensIssued + 1
    /\ UNCHANGED <<refreshRequests, isRefreshing, refreshPromise, calls,
                   nonAuthVars>>

\* authFetch(path): buildHeaders() and the first apiFetch
AuthFetchCall(p, op) ==
    /\ calls[p].pc = "idle"
    /\ calls' = [calls EXCEPT ![p] =
                    [@ EXCEPT !.pc = "first", !.op = op, !.requests = 1,
                              !.sentToken = accessToken]]
    /\ UNCHANGED <<tokenVars, isRefreshing, refreshPromise, nonAuthVars>>

\* the first request succeeds: authFetch returns the body
FirstResponseOk(p) ==
    /\ calls[p].pc = "first"
    /\ calls[p].op \in ViaAuthFetch
    /\ calls' = [calls EXCEPT ![p].pc = "returned"]
    /\ UNCHANGED <<tokenVars, isRefreshing, refreshPromise, nonAuthVars>>

\* the first request fails with something other than 401: rethrown
FirstResponseFails(p, e) ==
    /\ calls[p].pc = "first"
    /\ calls[p].op \in ViaAuthFetch
    /\ e # 401
    /\ calls' = [calls EXCEPT ![p] =
                    [@ EXCEPT !.pc = "thrown",
                              !.firstError = ApiError(e, 1),
                              !.thrown = ApiError(e, 1)]]
    /\ UNCHANGED <<tokenVars, isRefreshing, refreshPromise, nonAuthVars>>

\* the first request is answered 401: ensureValidToken() joins the refresh
\* in flight or starts one, and the call awaits it
FirstResponse401(p) ==
    /\ calls[p].pc = "first"
    /\ calls[p].op \in ViaAuthFetch
    /\ IF isRefreshing /\ refreshPromise # "null"
       THEN /\ calls' = [calls EXCEPT ![p] =
                           [@ EXCEPT !.pc = "awaitRefresh",
                                     !.firstError = ApiError(401, 1),
                                     !.awaitedRefresh = TRUE]]
            /\ UNCHANGED <<isRefreshing, refreshPromise, refreshRequests>>
       ELSE /\ isRefreshing' = TRUE
            /\ refreshPromise' = "pending"
            /\ refreshRequests' = refreshRequests + 1
            /\ calls' = [calls EXCEPT ![p] =
                           [@ EXCEPT !.pc = "awaitRefresh",
                                     !.firstError = ApiError(401, 1),
                                     !.awaitedRefresh = TRUE,
                                     !.refreshes = @ + 1]]
    /\ UNCHANGED <<accessToken, tokensIssued, logins, nonAuthVars>>

\* POST /auth/refresh succeeds: setAccessToken, the finally of
\* ensureValidToken, and every call awaiting the promise sends its retry
RefreshResponseOk ==
    /\ refreshPromise = "pending"
    /\ LET token == tokensIssued + 1 IN
          /\ tokensIssued' = token
          /\ accessToken' = token
          /\ calls' = [p \in Callers |->
                          IF calls[p].pc = "awaitRefresh"
                          THEN RetryRequest(calls[p], token)
                          ELSE calls[p]]
    /\ isRefreshing' = FALSE
    /\ refreshPromise' = "null"
    /\ UNCHANGED <<refreshRequests, logins, nonAuthVars>>

\* POST /auth/refresh fails: the finally of ensureValidToken, and every call
\* awaiting the promise runs its inner catch
RefreshResponseFails(e) ==
    /\ refreshPromise = "pending"
    /\ accessToken' = 0
    /\ calls' = [p \in Callers |->
                    IF calls[p].pc = "awaitRefresh"
                    THEN AuthFetchCatch(calls[p], ApiError(e, 0))
                    ELSE calls[p]]
    /\ isRefreshing' = FALSE
    /\ refreshPromise' = "null"
    /\ UNCHANGED <<refreshRequests, tokensIssued, logins, nonAuthVars>>

\* the retried request succeeds
RetryResponseOk(p) ==
    /\ calls[p].pc = "retry"
    /\ calls' = [calls EXCEPT ![p].pc = "returned"]
    /\ UNCHANGED <<tokenVars, isRefreshing, refreshPromise, nonAuthVars>>

\* the retried request fails: accessToken = null; throw err
RetryResponseFails(p, e) ==
    /\ calls[p].pc = "retry"
    /\ accessToken' = 0
    /\ calls' = [calls EXCEPT ![p] = AuthFetchCatch(@, ApiError(e, 2))]
    /\ UNCHANGED <<refreshRequests, tokensIssued, logins, isRefreshing,
                   refreshPromise, nonAuthVars>>

\* streamChatMessage: the headers are built and the POST is sent with fetch
StreamChatFetch(p) ==
    /\ calls[p].pc = "idle"
    /\ calls' = [calls EXCEPT ![p] =
                    [@ EXCEPT !.pc = "first", !.op = StreamOp,
                              !.requests = 1, !.sentToken = accessToken]]
    /\ UNCHANGED <<tokenVars, isRefreshing, refreshPromise, nonAuthVars>>

\* res.ok: streamChatMessage goes on to read the body
StreamChatResponseOk(p) ==
    /\ calls[p].pc = "first"
    /\ calls[p].op = StreamOp
    /\ calls' = [calls EXCEPT ![p].pc = "returned"]
    /\ UNCHANGED <<tokenVars, isRefreshing, refreshPromise, nonAuthVars>>

\* fetch rejects, or !res.ok: throw new ApiError(res.status, detail)
StreamChatResponseFails(p, e) ==
    /\ calls[p].pc = "first"
    /\ calls[p].op = StreamOp
    /\ calls' = [calls EXCEPT ![p] =
                    [@ EXCEPT !.pc = "thrown",
                              !.firstError = ApiError(e, 1),
                              !.thrown = ApiError(e, 1)]]
    /\ UNCHANGED <<tokenVars, isRefreshing, refreshPromise, nonAuthVars>>

InitAuth ==
    /\ InitAuthParked
    /\ InitChatVars
    /\ InitCiteParked
    /\ InitPageParked
    /\ InitPipeParked

NextAuth ==
    \/ LoginResponseOk
    \/ \E p \in Callers, op \in AuthFetchOps : AuthFetchCall(p, op)
    \/ \E p \in Callers : FirstResponseOk(p)
    \/ \E p \in Callers, e \in Failures : FirstResponseFails(p, e)
    \/ \E p \in Callers : FirstResponse401(p)
    \/ RefreshResponseOk
    \/ \E e \in Failures : RefreshResponseFails(e)
    \/ \E p \in Callers : RetryResponseOk(p)
    \/ \E p \in Callers, e \in Failures : RetryResponseFails(p, e)
    \/ \E p \in Callers : StreamChatFetch(p)
    \/ \E p \in Callers : StreamChatResponseOk(p)
    \/ \E p \in Callers, e \in Failures : StreamChatResponseFails(p, e)

SpecAuth == InitAuth /\ [][NextAuth]_vars

(***************************************************************************)
(* C7, C8: refresh and retry on 401.                                       *)
(***************************************************************************)
IsSettled(c) == c.pc \in {"returned", "thrown"}

\* C7: an authFetch call sends at most two requests and starts at most one
\* refresh; it sends a second request only after a 401 and a refresh it
\* awaited, and sends it with the token that refresh delivered; a call that
\* got a 401 settles only after awaiting a refresh, returns only through the
\* retry, and when it throws it throws the 401 error of its first request.
C7_RefreshAndRetryOnce ==
    \A p \in Callers :
        LET c == calls[p] IN
        c.op \in AuthFetchOps =>
            /\ c.requests <= 2
            /\ c.refreshes <= 1
            /\ c.requests = 2 =>
                  /\ c.firstError = ApiError(401, 1)
                  /\ c.awaitedRefresh
                  /\ c.refreshedToken # 0
                  /\ c.retryToken = c.refreshedToken
            /\ (IsSettled(c) /\ c.firstError.status = 401) =>
                  /\ c.awaitedRefresh
                  /\ c.pc = "returned" => c.requests = 2
                  /\ c.pc = "thrown" => c.thrown = ApiError(401, 1)

\* C7 witness: one call started the refresh, retried and returned; another
\* joined the same refresh, retried, and its retry failed with status 500
C7_Witness ==
    \E p, q \in Callers :
        /\ calls[p].op \in AuthFetchOps /\ calls[q].op \in AuthFetchOps
        /\ calls[p].refreshes = 1 /\ calls[p].requests = 2
        /\ calls[p].pc = "returned"
        /\ calls[q].refreshes = 0 /\ calls[q].requests = 2
        /\ calls[q].pc = "thrown"
        /\ calls[q].retryToken # calls[q].sentToken
        /\ refreshRequests = 1

\* C8: every operation that sends the access token, the streaming send
\* included, answers a 401 by awaiting a refresh, and retries once the
\* refresh succeeded.
C8_Every401Refreshes ==
    \A p \in Callers :
        LET c == calls[p] IN
        (IsSettled(c) /\ c.firstError.status = 401) =>
            /\ c.awaitedRefresh
            /\ c.refreshedToken # 0 => c.requests = 2

(***************************************************************************)
(* AuthProvider (contexts/auth-context.tsx), AuthGuard, the routed pages   *)
(* and ForgotPasswordPage.  The outcome of getMe() is taken as a whole;    *)
(* its requests are those of authFetch above.  The visits of the           *)
(* forgot-password page are independent instances of the page.             *)
(***************************************************************************)
Roles  == {"user", "admin"}
Routes == {"/", "/login", "/admin", "/settings", "/chat", "/forgot-password"}
Emails == {"known@example.com", "unknown@example.com"}
\* the addresses an account is registered for
Accounts == {"known@example.com"}

isAuthenticated == user # "null"

\* what AuthGuard renders around children
AuthGuard(children, requireAdmin) ==
    IF isLoading THEN "Loading..."
    ELSE IF ~isAuthenticated THEN "nothing"
    ELSE IF requireAdmin /\ user # "admin" THEN "nothing"
    ELSE children

\* AdminPage: the upload form and the two tables, rendered as they are
AdminPage == "admin-content"
SettingsPage == AuthGuard("settings-content", FALSE)
ChatPage == AuthGuard("chat-layout", FALSE)

\* the routes whose page is wrapped in AuthGuard, with its requireAdmin prop
GuardedRoutes == [r \in {"/settings", "/chat"} |-> FALSE]

\* what the router shows
Screen ==
    CASE route = "/admin" -> AdminPage
      [] route = "/settings" -> SettingsPage
      [] route = "/chat" -> ChatPage
      [] OTHER -> route

\* the effect on mount: init() calls refreshToken()
AuthProviderInit ==
    /\ authPc = "mounted"
    /\ authPc' = "init-refresh"
    /\ refreshRequests' = refreshRequests + 1
    /\ UNCHANGED <<user, isLoading, route, forgot, accessToken, tokensIssued,
                   logins, isRefreshing, refreshPromise, calls, nonPageVars>>

\* refreshToken() resolves: setAccessToken, then refreshUser() calls getMe()
InitRefreshOk ==
    /\ authPc = "init-refresh"
    /\ authPc' = "init-me"
    /\ tokensIssued' = tokensIssued + 1
    /\ accessToken' = tokensIssued + 1
    /\ UNCHANGED <<user, isLoading, route, forgot, refreshRequests, logins,
                   isRefreshing, refreshPromise, calls, nonPageVars>>

\* refreshToken() rejects: setUser(null), setIsLoading(false)
InitRefreshFails ==
    /\ authPc = "init-refresh"
    /\ authPc' = "idle"
    /\ user' = "null"
    /\ isLoading' = FALSE
    /\ UNCHANGED <<route, forgot, authVars, nonPageVars>>

\* getMe() resolves inside refreshUser: setUser(profile); init's finally
\* clears isLoading
RefreshUserOk(role) ==
    /\ authPc \in {"init-me", "login-me"}
    /\ user' = role
    /\ isLoading' = IF authPc = "init-me" THEN FALSE ELSE isLoading
    /\ authPc' = "idle"
    /\ UNCHANGED <<route, forgot, authVars, nonPageVars>>

\* getMe() rejects inside refreshUser: setUser(null), setAccessToken(null)
RefreshUserFails ==
    /\ authPc \in {"init-me", "login-me"}
    /\ user' = "null"
    /\ accessToken' = 0
    /\ isLoading' = IF authPc = "init-me" THEN FALSE ELSE isLoading
    /\ authPc' = "idle"
    /\ UNCHANGED <<route, forgot, refreshRequests, tokensIssued, logins,
                   isRefreshing, refreshPromise, calls, nonPageVars>>

\* login(data): apiLogin is called
ProviderLogin ==
    /\ authPc = "idle"
    /\ ~isAuthenticated
    /\ logins < MaxLogins
    /\ logins' = logins + 1
    /\ authPc' = "login"
    /\ UNCHANGED <<user, isLoading, route, forgot, refreshRequests,
                   accessToken, tokensIssued, isRefreshing, refreshPromise,
                   calls, nonPageVars>>

\* apiLogin resolves: setAccessToken, then refreshUser()
ProviderLoginOk ==
    /\ authPc = "login"
    /\ authPc' = "login-me"
    /\ tokensIssued' = tokensIssued + 1
    /\ accessToken' = tokensIssued + 1
    /\ UNCHANGED <<user, isLoading, route, forgot, refreshRequests, logins,
                   isRefreshing, refreshPromise, calls, nonPageVars>>

\* apiLogin rejects: login() rejects, nothing is set
ProviderLoginFails ==
    /\ authPc = "login"
    /\ authPc' = "idle"
    /\ UNCHANGED <<user, isLoading, route, forgot, authVars, nonPageVars>>

\* logout(): apiLogout is called
ProviderLogout ==
    /\ authPc = "idle"
    /\ isAuthenticated
    /\ authPc' = "logout"
    /\ UNCHANGED <<user, isLoading, route, forgot, authVars, nonPageVars>>

\* apiLogout settles either way: setUser(null), setAccessToken(null)
ProviderLogoutSettles ==
    /\ authPc = "logout"
    /\ authPc' = "idle"
    /\ user' = "null"
    /\ accessToken' = 0
    /\ UNCHANGED <<isLoading, route, forgot, refreshRequests, tokensIssued,
                   logins, isRefreshing, refreshPromise, calls, nonPageVars>>

\* a link is followed or an address is entered
Navigate(r) ==
    /\ r # route
    /\ route' = r
    /\ UNCHANGED <<user, isLoading, authPc, forgot, authVars, nonPageVars>>

\* the effect of AuthGuard: router.replace("/login") for a visitor who is
\* not signed in, router.replace("/") for a non-admin where admin is required
AuthGuardEffect ==
    /\ route \in DOMAIN GuardedRoutes
    /\ ~isLoading
    /\ LET afterLogin == IF ~isAuthenticated THEN "/login" ELSE route
           afterAdmin == IF GuardedRoutes[route] /\ user # "admin"
                         THEN "/" ELSE afterLogin
       IN  /\ afterAdmin # route
           /\ route' = afterAdmin
    /\ UNCHANGED <<user, isLoading, authPc, forgot, authVars, nonPageVars>>

\* the catch of handleSubmit reporting the failure, as ResetPasswordPage does
ForgotCatchShowsError(f) ==
    [f EXCEPT !.error = "Something went wrong."]

\* the catch of handleSubmit: setSubmitted(true)
ForgotCatch(f) ==
    [f EXCEPT !.submitted = TRUE]

\* what ForgotPasswordPage renders
ForgotPasswordView(f) ==
    IF f.submitted
    THEN [card |-> "Check Your Email", errorText |-> "", button |-> "none"]
    ELSE [card |-> "Reset Password", errorText |-> f.error,
          button |-> IF f.submitting THEN "Sending..." ELSE "Send Reset Link"]

\* onChange of the email input
setEmail(v, e) ==
    /\ ~forgot[v].submitted
    /\ ~forgot[v].submitting
    /\ e # forgot[v].email
    /\ forgot' = [forgot EXCEPT ![v].email = e]
    /\ UNCHANGED <<user, isLoading, authPc, route, authVars, nonPageVars>>

\* handleSubmit up to the await: the input is required, the button is
\* disabled while submitting
handleSubmit(v) ==
    /\ ~forgot[v].submitted
    /\ ~forgot[v].submitting
    /\ forgot[v].email # ""
    /\ forgot' = [forgot EXCEPT ![v] =
                    [@ EXCEPT !.error = "", !.submitting = TRUE,
                              !.pc = "waiting"]]
    /\ UNCHANGED <<user, isLoading, authPc, route, authVars, nonPageVars>>

\* forgotPassword(email) resolves: setSubmitted(true), setSubmitting(false)
ForgotResolves(v) ==
    /\ forgot[v].pc = "waiting"
    /\ forgot' = [forgot EXCEPT ![v] =
                    [@ EXCEPT !.submitted = TRUE, !.submitting = FALSE,
                              !.pc = "settled", !.outcome = "ok"]]
    /\ UNCHANGED <<user, isLoading, authPc, route, authVars, nonPageVars>>

\* forgotPassword(email) rejects: the catch, then setSubmitting(false); the
\* server may tell an unknown address apart ("not-found")
ForgotRejects(v, why) ==
    /\ forgot[v].pc = "waiting"
    /\ why = "not-found" => forgot[v].email \notin Accounts
    /\ forgot' = [forgot EXCEPT ![v] =
                    [ForgotCatch(@) EXCEPT !.submitting = FALSE,
                                           !.pc = "settled",
                                           !.outcome = why]]
    /\ UNCHANGED <<user, isLoading, authPc, route, authVars, nonPageVars>>

\* the app opened at its home page: AuthProvider rendered once, its effect
\* not yet run
InitPages ==
    /\ user = "null"
    /\ isLoading = TRUE
    /\ authPc = "mounted"
    /\ route = "/"
    /\ forgot = [v \in Visits |-> FreshForgotPage]
    /\ InitAuthParked
    /\ InitChatVars
    /\ InitCiteParked
    /\ InitPipeParked

NextPages ==
    \/ AuthProviderInit
    \/ InitRefreshOk
    \/ InitRefreshFails
    \/ \E role \in Roles : RefreshUserOk(role)
    \/ RefreshUserFails
    \/ ProviderLogin
    \/ ProviderLoginOk
    \/ ProviderLoginFails
    \/ ProviderLogout
    \/ ProviderLogoutSettles
    \/ \E r \in Routes : Navigate(r)
    \/ AuthGuardEffect
    \/ \E v \in Visits, e \in Emails : setEmail(v, e)
    \/ \E v \in Visits : handleSubmit(v)
    \/ \E v \in Visits : ForgotResolves(v)
    \/ \E v \in Visits, why \in {"not-found", "failed"} : ForgotRejects(v, why)

SpecPages == InitPages /\ [][NextPages]_vars

(***************************************************************************)
(* Start-up: the AuthProvider's init effect runs while components issue    *)
(* authFetch calls of their own (a page that is not held back by AuthGuard *)
(* fetches on mount).                                                      *)
(***************************************************************************)
NextStartup ==
    \/ AuthProviderInit
    \/ InitRefreshOk
    \/ InitRefreshFails
    \/ \E role \in Roles : RefreshUserOk(role)
    \/ RefreshUserFails
    \/ \E p \in Callers, op \in AuthFetchOps : AuthFetchCall(p, op)
    \/ \E p \in Callers : FirstResponseOk(p)
    \/ \E p \in Callers, e \in Failures : FirstResponseFails(p, e)
    \/ \E p \in Callers : FirstResponse401(p)
    \/ RefreshResponseOk
    \/ \E e \in Failures : RefreshResponseFails(e)
    \/ \E p \in Callers : RetryResponseOk(p)
    \/ \E p \in Callers, e \in Failures : RetryResponseFails(p, e)

SpecStartup == InitPages /\ [][NextStartup]_vars

(***************************************************************************)
(* Logout: AuthProvider.logout() awaits the api-client's logout(), which   *)
(* is an authFetch of POST /auth/logout followed by setAccessToken(null).  *)
(* The request is the call of LogoutCaller; the other callers may have     *)
(* authFetch calls of their own in progress.                               *)
(***************************************************************************)
LogoutCaller == 1

\* logout() without the try / catch around apiLogout(): a failure of the
\* request leaves user and token as they are and rejects
AfterApiLogoutUncaught(threw) ==
    IF threw
    THEN [user |-> user, accessToken |-> accessToken, pc |-> "logout-rejected"]
    ELSE [user |-> "null", accessToken |-> 0, pc |-> "idle"]

\* what logout() leaves once apiLogout() has settled: the empty catch, then
\* setUser(null) and setAccessToken(null)
AfterApiLogout(threw) ==
    [user |-> "null", accessToken |-> 0, pc |-> "idle"]

\* logout() is called: the first request of authFetch("/auth/logout")
ProviderLogoutCall ==
    /\ authPc = "idle"
    /\ isAuthenticated
    /\ calls[LogoutCaller].pc = "idle"
    /\ authPc' = "logout"
    /\ calls' = [calls EXCEPT ![LogoutCaller] =
                    [@ EXCEPT !.pc = "first", !.op = LogoutOp, !.requests = 1,
                              !.sentToken = accessToken]]
    /\ UNCHANGED <<user, isLoading, route, forgot, tokenVars, isRefreshing,
                   refreshPromise, nonPageVars>>

\* authFetch returned: the api-client's setAccessToken(null), then the
\* provider's setUser(null) and setAccessToken(null)
ApiLogoutReturns ==
    /\ authPc = "logout"
    /\ calls[LogoutCaller].op = LogoutOp
    /\ calls[LogoutCaller].pc = "returned"
    /\ authPc' = AfterApiLogout(FALSE).pc
    /\ user' = AfterApiLogout(FALSE).user
    /\ accessToken' = AfterApiLogout(FALSE).accessToken
    /\ UNCHANGED <<isLoading, route, forgot, refreshRequests, tokensIssued,
                   logins, isRefreshing, refreshPromise, calls, nonPageVars>>

\* authFetch threw (the request, the refresh or the retry failed)
ApiLogoutThrows ==
    /\ authPc = "logout"
    /\ calls[LogoutCaller].op = LogoutOp
    /\ calls[LogoutCaller].pc = "thrown"
    /\ authPc' = AfterApiLogout(TRUE).pc
    /\ user' = AfterApiLogout(TRUE).user
    /\ accessToken' = AfterApiLogout(TRUE).accessToken
    /\ UNCHANGED <<isLoading, route, forgot, refreshRequests, tokensIssued,
                   logins, isRefreshing, refreshPromise, calls, nonPageVars>>

NextLogout ==
    \/ AuthProviderInit
    \/ InitRefreshOk
    \/ InitRefreshFails
    \/ \E role \in Roles : RefreshUserOk(role)
    \/ RefreshUserFails
    \/ ProviderLogoutCall
    \/ ApiLogoutReturns
    \/ ApiLogoutThrows
    \/ \E p \in Callers \ {LogoutCaller}, op \in AuthFetchOps :
          AuthFetchCall(p, op)
    \/ \E p \in Callers : FirstResponseOk(p)
    \/ \E p \in Callers, e \in Failures : FirstResponseFails(p, e)
    \/ \E p \in Callers : FirstResponse401(p)
    \/ RefreshResponseOk
    \/ \E e \in Failures : RefreshResponseFails(e)
    \/ \E p \in Callers : RetryResponseOk(p)
    \/ \E p \in Callers, e \in Failures : RetryResponseFails(p, e)

SpecLogout == InitPages /\ [][NextLogout]_vars

(***************************************************************************)
(* C9, C10: the admin page and the forgot-password page.                   *)
(***************************************************************************)
\* C9: the admin content is on screen only when auth loading has finished
\* and the current user has role admin.
C9_AdminContentOnlyForAdmins ==
    Screen = "admin-content" => (~isLoading /\ user = "admin")

\* C10: a settled visit of the forgot-password page shows the confirmation
\* with no error text and submitting false, whatever the email and whatever
\* the outcome of the request; any two settled visits look the same.
C10_SameVisibleState ==
    /\ \A v \in Visits :
          forgot[v].pc = "settled" =>
              /\ forgot[v].submitted
              /\ forgot[v].error = ""
              /\ ~forgot[v].submitting
              /\ ForgotPasswordView(forgot[v]).card = "Check Your Email"
    /\ \A v, w \in Visits :
          (forgot[v].pc = "settled" /\ forgot[w].pc = "settled")
          => ForgotPasswordView(forgot[v]) = ForgotPasswordView(forgot[w])

\* C10 witness: one visit asked for a registered address and the request
\* succeeded, another asked for an unknown address and the request failed
C10_Witness ==
    \E v, w \in Visits :
        /\ forgot[v].pc = "settled" /\ forgot[w].pc = "settled"
        /\ forgot[v].email \in Accounts /\ forgot[v].outcome = "ok"
        /\ forgot[w].email \notin Accounts /\ forgot[w].outcome = "not-found"

(***************************************************************************)
(* The answer pipeline of one run: classify, expand, hybrid retrieve,      *)
(* fuse, generate, cite.  Its code is not among the front-end sources; it  *)
(* is modelled from the written specification (sections 4.2 to 4.7, 5, 7). *)
(***************************************************************************)
\* most phrases the Query Expander returns in a run of the model
MaxPhrases == 2
\* cap on the passages one source contributes to a fused context
PerSourceCap == 2
\* top-k of a semantic or metadata query, and of a counting or listing one
DefaultTopK == 2
LargeTopK == 3

PipelineOrder ==
    <<"IDLE", "CLASSIFYING", "EXPANDING", "RETRIEVING", "FUSING",
      "GENERATING", "CITING", "DONE">>
Terminal == {"DONE", "FAILED"}
Intents == {"semantic", "counting", "metadata", "listing"}
Modes == {"vector", "keyword", "metadata"}
\* the phrase that stands for the original question
OriginalQuestion == 0

\* the state that follows st in the pipeline order
Successor(st) ==
    LET i == CHOOSE k \in 1..Len(PipelineOrder) : PipelineOrder[k] = st
    IN  PipelineOrder[i + 1]

\* the corpus: source and ruku (0: none) of each Passage identifier
BookOf == <<"quran", "quran", "bukhari", "quran">>
RukuOf == <<1, 1, 0, 0>>

Candidate(id, score, mode) == [passage |-> id, score |-> score, mode |-> mode]

\* what the Passage Store returns for one phrase in one mode
StoreResult(phrase, mode) ==
    CASE mode = "vector"   -> {Candidate(1, 2 + phrase, mode),
                               Candidate(3, 2, mode)}
      [] mode = "keyword"  -> {Candidate(1, 3, mode),
                               Candidate(2, 1 + phrase, mode)}
      [] mode = "metadata" -> {Candidate(2, 4, mode), Candidate(4, 1, mode)}

\* the calls issued for the phrases: vector and keyword always, metadata
\* only when the intent implies a direct locator
IssuedSearches(ps, label) ==
    [c \in (1..Len(ps)) \X Modes |->
        IF c[2] = "metadata" /\ label # "metadata" THEN "skipped"
        ELSE "pending"]

Issued == {c \in DOMAIN searches : searches[c] # "skipped"}

\* RetrievalExhausted with "some call failed" for "every call failed"
RetrievalExhaustedOnAnyFailure ==
    \E c \in Issued : searches[c] = "failed"

\* RetrievalExhausted: every mode of every phrase failed
RetrievalExhausted ==
    /\ Issued # {}
    /\ \A c \in Issued : searches[c] = "failed"

\* the candidates of the calls that succeeded; a failed call contributes
\* nothing and a timed-out call counts as an empty result
RetainedCandidates ==
    UNION {StoreResult(phrases[c[1]], c[2]) :
              c \in {d \in Issued : searches[d] = "ok"}}

ModeRank(mode) ==
    CASE mode = "metadata" -> 3 [] mode = "keyword" -> 2 [] mode = "vector" -> 1

\* c is kept in preference to d: higher score, then the tie-break
\* metadata > keyword > vector
Outscores(c, d) ==
    \/ c.score > d.score
    \/ c.score = d.score /\ ModeRank(c.mode) >= ModeRank(d.mode)

\* deduplication keeping the duplicate of the best mode, whatever its score
DeduplicateByMode(cands) ==
    {c \in cands :
        \A d \in cands :
            d.passage = c.passage => ModeRank(c.mode) >= ModeRank(d.mode)}

\* step 1: one candidate per Passage identifier, the highest score
Deduplicate(cands) ==
    {c \in cands : \A d \in cands : d.passage = c.passage => Outscores(c, d)}

\* the ranking order: mode, then raw score, then passage identifier
RanksBefore(c, d) ==
    \/ ModeRank(c.mode) > ModeRank(d.mode)
    \/ ModeRank(c.mode) = ModeRank(d.mode) /\ c.score > d.score
    \/ ModeRank(c.mode) = ModeRank(d.mode) /\ c.score = d.score
         /\ c.passage <= d.passage

RECURSIVE Rank(_)
\* step 3: the candidates as a sequence, best first
Rank(cands) ==
    IF cands = {} THEN <<>>
    ELSE LET best == CHOOSE c \in cands : \A d \in cands : RanksBefore(c, d)
         IN  <<best>> \o Rank(cands \ {best})

\* step 2: at most PerSourceCap candidates of one source, the best ones
Diversify(cands) ==
    {c \in cands :
        Cardinality({d \in cands : /\ BookOf[d.passage] = BookOf[c.passage]
                                   /\ d # c
                                   /\ RanksBefore(d, c)}) < PerSourceCap}

RECURSIVE Group(_, _)
\* step 4: an ayah joins the block that holds an ayah of its ruku
Group(ranked, blocks) ==
    IF ranked = <<>> THEN blocks
    ELSE LET c == Head(ranked)
             home == {b \in 1..Len(blocks) :
                         /\ RukuOf[c.passage] # 0
                         /\ \E j \in 1..Len(blocks[b]) :
                               RukuOf[blocks[b][j].passage] = RukuOf[c.passage]}
         IN  IF home = {}
             THEN Group(Tail(ranked), Append(blocks, <<c>>))
             ELSE LET b == CHOOSE x \in home : TRUE IN
                  Group(Tail(ranked),
                        [blocks EXCEPT ![b] = Append(@, c)])

TopK(label) ==
    IF label \in {"counting", "listing"} THEN LargeTopK ELSE DefaultTopK

\* the Result Fuser: deduplicate, diversify, rank, group, truncate
Fuser(cands, label) ==
    LET blocks == Group(Rank(Diversify(Deduplicate(cands))), <<>>)
    IN  SubSeq(blocks, 1, IF Len(blocks) < TopK(label) THEN Len(blocks)
                          ELSE TopK(label))

PipeEvent(type, data) == [type |-> type, data |-> data]
Emitted(type) == \E i \in 1..Len(pEvents) : pEvents[i].type = type

RECURSIVE PassagesOf(_)
\* the passages of the context blocks, in citation order
PassagesOf(blocks) ==
    IF blocks = <<>> THEN <<>>
    ELSE [j \in 1..Len(Head(blocks)) |-> Head(blocks)[j].passage]
         \o PassagesOf(Tail(blocks))

\* a classification error aborting the run
AfterClassifierFailureAborts ==
    [state |-> "FAILED", intent |-> "none", cause |-> "ClassificationError"]

\* a classification error: default to semantic and go on
AfterClassifierFailure ==
    [state |-> "EXPANDING", intent |-> "semantic", cause |-> "none"]

\* GENERATING left for CITING whether or not the model has finished
CanCiteAnytime == TRUE

\* GENERATING -> CITING once the model has signalled completion
CanCite == modelDone

\* a question arrives (no conversation history: the rewriter is a no-op)
StartRun ==
    /\ pState = "IDLE"
    /\ pState' = "CLASSIFYING"
    /\ UNCHANGED <<intent, phrases, searches, retained, fused, pEvents,
                   modelDone, failCause, fallbacks, nonPipeVars>>

ClassifyOk(label) ==
    /\ pState = "CLASSIFYING"
    /\ pState' = "EXPANDING"
    /\ intent' = label
    /\ UNCHANGED <<phrases, searches, retained, fused, pEvents, modelDone,
                   failCause, fallbacks, nonPipeVars>>

ClassifyFails ==
    /\ pState = "CLASSIFYING"
    /\ pState' = AfterClassifierFailure.state
    /\ intent' = AfterClassifierFailure.intent
    /\ fallbacks' = fallbacks \cup {"classifier"}
    /\ IF AfterClassifierFailure.state = "FAILED"
       THEN /\ failCause' = AfterClassifierFailure.cause
            /\ pEvents' = Append(pEvents,
                                 PipeEvent("error", "classification failed"))
       ELSE UNCHANGED <<failCause, pEvents>>
    /\ UNCHANGED <<phrases, searches, retained, fused, modelDone,
                   nonPipeVars>>

\* the expander returns n phrases; the retrieval calls are issued together
ExpandOk(n) ==
    /\ pState = "EXPANDING"
    /\ pState' = "RETRIEVING"
    /\ phrases' = [i \in 1..n |-> i]
    /\ searches' = IssuedSearches([i \in 1..n |-> i], intent)
    /\ UNCHANGED <<intent, retained, fused, pEvents, modelDone, failCause,
                   fallbacks, nonPipeVars>>

\* an expansion error: the original question is the only phrase
ExpandFails ==
    /\ pState = "EXPANDING"
    /\ pState' = "RETRIEVING"
    /\ phrases' = <<OriginalQuestion>>
    /\ searches' = IssuedSearches(<<OriginalQuestion>>, intent)
    /\ fallbacks' = fallbacks \cup {"expander"}
    /\ UNCHANGED <<intent, retained, fused, pEvents, modelDone, failCause,
                   nonPipeVars>>

\* one retrieval call settles: it returns, fails, or times out
SearchSettles(c, outcome) ==
    /\ pState = "RETRIEVING"
    /\ c \in DOMAIN searches
    /\ searches[c] = "pending"
    /\ searches' = [searches EXCEPT ![c] = outcome]
    /\ UNCHANGED <<pState, intent, phrases, retained, fused, pEvents,
                   modelDone, failCause, fallbacks, nonPipeVars>>

\* the group of calls has been awaited and something was not a failure
RetrievalCompletes ==
    /\ pState = "RETRIEVING"
    /\ \A c \in Issued : searches[c] # "pending"
    /\ ~RetrievalExhausted
    /\ pState' = "FUSING"
    /\ retained' = RetainedCandidates
    /\ UNCHANGED <<intent, phrases, searches, fused, pEvents, modelDone,
                   failCause, fallbacks, nonPipeVars>>

\* RetrievalExhausted: a single error event before any generation
RetrievalFails ==
    /\ pState = "RETRIEVING"
    /\ \A c \in Issued : searches[c] # "pending"
    /\ RetrievalExhausted
    /\ pState' = "FAILED"
    /\ failCause' = "RetrievalExhausted"
    /\ pEvents' = Append(pEvents, PipeEvent("error", "retrieval failed"))
    /\ UNCHANGED <<intent, phrases, searches, retained, fused, modelDone,
                   fallbacks, nonPipeVars>>

\* the Result Fuser runs; the candidates of the run are consumed
Fuse ==
    /\ pState = "FUSING"
    /\ pState' = "GENERATING"
    /\ fused' = Fuser(retained, intent)
    /\ searches' = <<>>
    /\ UNCHANGED <<intent, phrases, retained, pEvents, modelDone, failCause,
                   fallbacks, nonPipeVars>>

\* a token of the model is streamed as soon as it is available
GenerateToken ==
    /\ pState = "GENERATING"
    /\ ~modelDone
    /\ Len(TokensOf(pEvents)) < MaxTokens
    /\ pEvents' = Append(pEvents,
          PipeEvent("content_delta", TokenAt(Len(TokensOf(pEvents)) + 1)))
    /\ UNCHANGED <<pState, intent, phrases, searches, retained, fused,
                   modelDone, failCause, fallbacks, nonPipeVars>>

\* the model signals the end of its text
ModelCompletes ==
    /\ pState = "GENERATING"
    /\ ~modelDone
    /\ modelDone' = TRUE
    /\ UNCHANGED <<pState, intent, phrases, searches, retained, fused,
                   pEvents, failCause, fallbacks, nonPipeVars>>

BeginCiting ==
    /\ pState = "GENERATING"
    /\ CanCite
    /\ pState' = "CITING"
    /\ UNCHANGED <<intent, phrases, searches, retained, fused, pEvents,
                   modelDone, failCause, fallbacks, nonPipeVars>>

\* GenerationError: the partial text stays, an error event ends the stream
GenerationFails ==
    /\ pState = "GENERATING"
    /\ ~modelDone
    /\ pState' = "FAILED"
    /\ failCause' = "GenerationError"
    /\ pEvents' = Append(pEvents, PipeEvent("error", "generation failed"))
    /\ UNCHANGED <<intent, phrases, searches, retained, fused, modelDone,
                   fallbacks, nonPipeVars>>

\* the Citation Builder's list is emitted
EmitCitations ==
    /\ pState = "CITING"
    /\ ~Emitted("citations")
    /\ pEvents' = Append(pEvents, PipeEvent("citations", PassagesOf(fused)))
    /\ UNCHANGED <<pState, intent, phrases, searches, retained, fused,
                   modelDone, failCause, fallbacks, nonPipeVars>>

\* the terminal done event
FinishRun ==
    /\ pState = "CITING"
    /\ Emitted("citations")
    /\ pState' = "DONE"
    /\ pEvents' = Append(pEvents, PipeEvent("done", "answer"))
    /\ UNCHANGED <<intent, phrases, searches, retained, fused, modelDone,
                   failCause, fallbacks, nonPipeVars>>

\* the caller disconnects: outstanding calls are cancelled, nothing more is
\* emitted
Cancel ==
    /\ pState \notin Terminal
    /\ pState' = "FAILED"
    /\ failCause' = "cancelled"
    /\ UNCHANGED <<intent, phrases, searches, retained, fused, pEvents,
                   modelDone, fallbacks, nonPipeVars>>

InitPipeline ==
    /\ pState = "IDLE"
    /\ intent = "none"
    /\ phrases = <<>>
    /\ searches = <<>>
    /\ retained = {}
    /\ fused = <<>>
    /\ pEvents = <<>>
    /\ modelDone = FALSE
    /\ failCause = "none"
    /\ fallbacks = {}
    /\ InitChatVars
    /\ InitAuthParked
    /\ InitCiteParked
    /\ InitPageParked

NextPipeline ==
    \/ StartRun
    \/ \E label \in Intents : ClassifyOk(label)
    \/ ClassifyFails
    \/ \E n \in 1..MaxPhrases : ExpandOk(n)
    \/ ExpandFails
    \/ \E c \in DOMAIN searches, outcome \in {"ok", "failed", "timeout"} :
          SearchSettles(c, outcome)
    \/ RetrievalCompletes
    \/ RetrievalFails
    \/ Fuse
    \/ GenerateToken
    \/ ModelCompletes
    \/ BeginCiting
    \/ GenerationFails
    \/ EmitCitations
    \/ FinishRun
    \/ Cancel

SpecPipeline == InitPipeline /\ [][NextPipeline]_vars

\* ---------------------------------------------------------------------
\* Properties of the answer pipeline

\* C11: a failure or time-out of some of the retrieval calls does not fail
\* the run: when fusion starts every candidate of every call that succeeded
\* is among the retained candidates, and the run ends with the retrieval
\* error only when every issued call failed.
C11_PartialRetrievalAbsorbed ==
    /\ pState = "FUSING" =>
          \A c \in Issued :
             searches[c] = "ok" =>
                StoreResult(phrases[c[1]], c[2]) \subseteq retained
    /\ failCause = "RetrievalExhausted" =>
          /\ Issued # {}
          /\ \A c \in Issued : searches[c] = "failed"
    /\ (pState = "FAILED" /\ \E c \in Issued : searches[c] # "failed") =>
          failCause = "cancelled"

\* fusion starts after one call failed, one timed out and one succeeded
C11_Witness ==
    /\ pState = "FUSING"
    /\ \E c \in Issued : searches[c] = "failed"
    /\ \E c \in Issued : searches[c] = "timeout"
    /\ \E c \in Issued : searches[c] = "ok"
    /\ retained # {}

ErrorEvents == {i \in 1..Len(pEvents) : pEvents[i].type = "error"}

\* C12: a failure of the classifier or of the expander never aborts the
\* run: after a classification failure the intent is semantic, after an
\* expansion failure the original question is the only phrase, a run ends
\* in failure only for a retrieval, generation or cancellation cause (with
\* an error event only for the first two), and a run that is done has
\* emitted the citations and then done.
C12_LocalRecovery ==
    /\ "classifier" \in fallbacks => intent = "semantic"
    /\ "expander" \in fallbacks => phrases = <<OriginalQuestion>>
    /\ pState = "FAILED" =>
          failCause \in {"RetrievalExhausted", "GenerationError", "cancelled"}
    /\ pState # "FAILED" => failCause = "none"
    /\ ErrorEvents # {} =>
          /\ failCause \in {"RetrievalExhausted", "GenerationError"}
          /\ ErrorEvents = {Len(pEvents)}
    /\ pState = "DONE" =>
          /\ Len(pEvents) >= 2
          /\ pEvents[Len(pEvents)].type = "done"
          /\ pEvents[Len(pEvents) - 1].type = "citations"
          /\ ErrorEvents = {}

\* both the classifier and the expander failed and the answer is complete
C12_Witness ==
    /\ pState = "DONE"
    /\ fallbacks = {"classifier", "expander"}
    /\ Emitted("content_delta")
    /\ Emitted("citations")

\* C13: the state changes only to the next state of the order IDLE,
\* CLASSIFYING, EXPANDING, RETRIEVING, FUSING, GENERATING, CITING, DONE or
\* to FAILED, never out of DONE or FAILED; GENERATING is left for CITING
\* only when the model has signalled completion; FAILED can be entered
\* from every state that is not terminal.
C13_StateOrder ==
    /\ [][pState' # pState =>
            /\ pState \notin Terminal
            /\ pState' \in {Successor(pState), "FAILED"}
            /\ (pState = "GENERATING" /\ pState' = "CITING") => modelDone
         ]_vars
    /\ [](pState \notin Terminal => ENABLED Cancel)

\* the whole order has been walked, GENERATING left after completion
C13_Witness ==
    /\ pState = "DONE"
    /\ modelDone
    /\ Emitted("done")

\* the candidates of the context blocks
FusedCandidates ==
    UNION {{fused[b][j] : j \in 1..Len(fused[b])} : b \in 1..Len(fused)}

\* C14: a Passage identifier occurs at most once in the fused context,
\* and the candidate that stands for it has the highest score among the
\* retained candidates of that Passage.
C14_DeduplicatedContext ==
    /\ \A i, j \in 1..Len(PassagesOf(fused)) :
          PassagesOf(fused)[i] = PassagesOf(fused)[j] => i = j
    /\ \A c \in FusedCandidates :
          /\ c \in retained
          /\ \A d \in retained : d.passage = c.passage => d.score <= c.score

\* a passage returned by two phrases and by two modes with different
\* scores is in the fused context
C14_Witness ==
    /\ pState = "GENERATING"
    /\ \E c \in FusedCandidates :
          /\ \E d \in retained :
                d.passage = c.passage /\ d.mode # c.mode /\ d.score < c.score
          /\ \E d \in retained :
                d.passage = c.passage /\ d.mode = c.mode /\ d.score < c.score

(***************************************************************************)
(* Properties of the token buffer, the chunked reader, the settling of a   *)
(* send and the remounted hook.                                            *)
(***************************************************************************)
\* the tokens handed to onContentDelta before the k-th callback
TokensBefore(k) == TokensOf(SubSeq(callbackLog, 1, k - 1))

\* C15: in a loaded session whose placeholder was appended by onUserMessage
\* (and with an empty token buffer at the send), whatever frames fire
\* between the callbacks: the placeholder's content followed by the buffered
\* tokens is exactly the tokens received so far, in order, each once;
\* citations are on the message only when every earlier token is in its
\* content; and the step that handles done leaves the answer message with
\* exactly all the tokens and an empty buffer.
C15_TokensOnceInOrder ==
    /\ []((HasPlaceholder /\ tokensAtSend = <<>>) =>
            /\ Last(session.messages).content \o tokenBufferRef
                 = TokensOf(callbackLog)
            /\ Last(session.messages).citations # NoCitations =>
                 \E k \in 1..Len(callbackLog) :
                    /\ callbackLog[k].type = "citations"
                    /\ IsPrefix(TokensBefore(k),
                                Last(session.messages).content))
    /\ [][(/\ HasPlaceholder
           /\ tokensAtSend = <<>>
           /\ ~Handled("done")
           /\ Handled("done")')
          => /\ session'.messages # <<>>
             /\ Last(session'.messages).id = AnswerMsgId(sendCount)
             /\ Last(session'.messages).content = TokensOf(callbackLog')
             /\ tokenBufferRef' = <<>>]_vars

\* C15 witness: done was handled on the placeholder of a session that was
\* not reloaded since the title arrived; the answer has both tokens and the
\* citations
C15_Witness ==
    /\ Handled("done")
    /\ session.loaded
    /\ session.title = "derived"
    /\ session.messages # <<>>
    /\ Last(session.messages).id = AnswerMsgId(sendCount)
    /\ Last(session.messages).content = <<TokenAt(1), TokenAt(2)>>
    /\ Last(session.messages).citations = CitationList
    /\ tokensAtSend = <<>>

\* the bytes the reader has taken from the body so far
ConsumedBody == SubSeq(resBody, 1, Len(resBody) - Len(wire))

\* the read loop run on the consumed bytes as one single chunk
Unsplit ==
    DispatchAll([h |-> HookState, log |-> <<>>, threw |-> FALSE],
                Front(SplitEvents(ConsumedBody)), tempUserMsgId)

\* C16: however the body is split into chunks, the callbacks invoked so
\* far, with their payloads, are those of the unsplit read of the same
\* bytes, the kept remainder is the same incomplete last part, and the
\* promise rejects exactly when the unsplit read throws: a block is
\* dispatched once, in order, and never from a part of its bytes.
C16_ChunkingInvariant ==
    /\ callbackLog = Unsplit.log
    /\ streamPc = "reading" =>
          /\ buffer = Last(SplitEvents(ConsumedBody))
          /\ ~Unsplit.threw
    /\ streamPc = "rejected" => Unsplit.threw
    /\ streamPc = "resolved" => wire = <<>> /\ ~Unsplit.threw

\* C16 witness: one event was dispatched, and a chunk boundary fell inside
\* the next event, whose first bytes wait in the buffer
C16_Witness ==
    /\ streamPc = "reading"
    /\ Len(callbackLog) = 1
    /\ buffer = <<"E", "content_delta", "N", "D">>
    /\ wire = <<TokenAt(1), "N", "N">>

\* the streaming promise of the current send rejects in this step
Rejecting == streamPc # "rejected" /\ streamPc' = "rejected"

\* C19: when the stream of a send rejects, the message list afterwards has
\* neither the optimistic message nor a streaming placeholder, begins with
\* the messages the send found, unchanged and in their order, an error is
\* set, sending is false and the session has no pendingStreams entry.
C19_RejectRestoresList ==
    [][Rejecting =>
         /\ error' # NoError
         /\ sending' = FALSE
         /\ SessionId \notin pendingStreams'
         /\ \A i \in 1..Len(session'.messages) :
               session'.messages[i].id
                  \notin {tempUserMsgId, STREAMING_MSG_ID}
         /\ session.loaded => IsPrefix(messagesAtSend, session'.messages)
      ]_vars

\* C18: an instance that mounted while a stream of the session was in
\* flight reports sending = true as long as the stream is in flight, shows
\* the stored messages followed by the optimistic message while it waits
\* for the stream's promise, and once the stream has settled and its
\* loadSession has finished, sending is false and, unless the reload
\* failed, the session is the server's.
C18_RemountFollowsStream ==
    orphaned =>
        /\ SessionId \in pendingStreams => sending
        /\ (loadPc = "pending-await" /\ session.loaded) =>
              /\ session.messages # <<>>
              /\ Last(session.messages) = OptimisticMessage
        /\ (SessionId \notin pendingStreams /\ loadPc = "idle") =>
              /\ ~sending
              /\ error = NoError => session.messages = dbMessages

\* the POST /auth/refresh requests that have not been answered yet: the
\* provider's start-up refresh and the one behind refreshPromise
RefreshesInFlight ==
    (IF authPc = "init-refresh" THEN 1 ELSE 0)
    + (IF refreshPromise = "pending" THEN 1 ELSE 0)

\* C17: at most one POST /auth/refresh is outstanding at any time, and
\* every 401 handler that waits, waits for the one promise in flight.
C17_SingleRefreshInFlight ==
    /\ RefreshesInFlight <= 1
    /\ \A p \in Callers :
          calls[p].pc = "awaitRefresh" =>
             isRefreshing /\ refreshPromise = "pending"

\* C20: the access token is set to null by authFetch only in a step in
\* which the refresh fails; a retry that fails after a refresh that
\* succeeded leaves the refreshed token in place.
C20_TokenKeptWhenOnlyRetryFails ==
    [][/\ (accessToken # 0 /\ accessToken' = 0) =>
             (refreshPromise = "pending" /\ refreshPromise' = "null")
       /\ \A p \in Callers :
             (calls[p].pc = "retry" /\ calls'[p].pc = "thrown") =>
                accessToken' = accessToken
      ]_vars

\* logout() settles in this step
LogoutSettles == authPc = "logout" /\ authPc' # "logout"

\* C21: when logout() settles it resolves, never rejects, and leaves user
\* null and the access token null, whether POST /auth/logout succeeded or
\* the request, the refresh or the retry behind it failed.
C21_LogoutAlwaysClears ==
    [][LogoutSettles =>
          /\ authPc' = "idle"
          /\ user' = "null"
          /\ accessToken' = 0
      ]_vars

\* C21 witness: logout() has resolved after its request had failed while an
\* access token was held: the call threw, user and token are null
C21_Witness ==
    /\ authPc = "idle"
    /\ calls[LogoutCaller].op = LogoutOp
    /\ calls[LogoutCaller].pc = "thrown"
    /\ calls[LogoutCaller].sentToken # 0
    /\ calls[LogoutCaller].thrown.status = 500
    /\ user = "null"
    /\ accessToken = 0

InFlightCalls == {c \in SendCalls : InFlight(c)}

\* C22: for the session at most one streamChatMessage call is in flight at
\* any time, whatever the interleaving of sendMessage calls, and
\* pendingStreams holds an entry for the session exactly while that call is
\* in flight.
C22_OneStreamPerSession ==
    /\ Cardinality(InFlightCalls) <= 1
    /\ (SessionId \in pendingStreams) <=> (InFlightCalls # {})

\* session.messages.filter((m) => m.id === STREAMING_MSG_ID).length
StreamingMessages ==
    Len(session.messages) -
        Len(SelectSeqNot(session.messages, {STREAMING_MSG_ID}))

\* C23: in every reachable state of useChat, whatever the sends, stream
\* events and failures, session.messages holds at most one message whose id
\* is STREAMING_MSG_ID, and holds one only while a stream for the session is
\* in flight.
C23_PlaceholderOnlyInFlight ==
    /\ StreamingMessages <= 1
    /\ StreamingMessages >= 1 => streamPc \in {"fetching", "reading"}

====
